---- MODULE Spec2Model ----
(***************************************************************************)
(* A model of the scaffolding crates:                                      *)
(*   scaffolding-macros/src/lib.rs  the attribute macros scaffolding_struct*)
(*                                  and scaffolding_fn, and the derived    *)
(*                                  trait implementations                  *)
(*   src/defaults.rs                the default value provider             *)
(* Token streams are modelled by the parsed items the macros work on: a    *)
(* struct is its list of named fields, a function is its name and the      *)
(* statements of its block, a struct literal is its list of field values.  *)
(***************************************************************************)
EXTENDS Integers, Sequences, FiniteSets, TLC

VARIABLES
    args,           \* the tokens between the parentheses of the attribute
    item_struct,    \* scaffolding_struct: the struct item under expansion
    struct_authored,\* the struct item as the user wrote it
    struct_status,  \* "none" | "authored" | "expanded" | "compile_error"
    augment_count,  \* how many times scaffolding_struct was applied to it
    fn_item,        \* scaffolding_fn: the function item under expansion
    fn_authored,    \* the function item as the user wrote it
    fn_status,      \* "none" | "authored" | "expanded" | "compile_error"
    tags,           \* the tags field of an entity: Vec<String>
    tags_status,    \* "none" (no such entity) | "ok" | "panicked"
    last_call,      \* the last ScaffoldingTags call, its argument and result
    clock,          \* the system clock, unix seconds
    ctor_pc,        \* new(): 0 not called, i the i-th initializer is next
    ctor_reads,     \* new(): the values defaults::now() returned so far
    entity,         \* the entity: the fields evaluated so far, member -> value
    ent_status,     \* "none" (no entity in use) | "ok" | "panicked"
    ent_call,       \* the last trait call on the entity, arguments and result
    live,           \* per collection: id returned by an insert and not removed
                    \* since -> the arguments of that insert
    countries       \* Countries.list: Vec<Country>

macroVars == <<args, item_struct, struct_authored, struct_status, augment_count,
               fn_item, fn_authored, fn_status>>

tagVars == <<tags, tags_status, last_call>>

ctorVars == <<clock, ctor_pc, ctor_reads, entity>>

entVars == <<ent_status, ent_call, live, countries>>

vars == <<macroVars, tagVars, ctorVars, entVars>>

-----------------------------------------------------------------------------
(* Bounds *)

\* attribute arguments written after the capability set itself
MaxExtraArgs == 1
\* capability fields the user-authored struct literal sets itself
MaxExplicitCaps == 1
\* applications of #[scaffolding_struct] to one struct
MaxAugment == 2
\* months given to add_months
MaxMonths == 25
\* years given to add_years
MaxYears == 3
\* countries in the list
MaxCountries == 3
\* length of the tags vector
MaxTags == 3
\* seconds the clock advances while a constructor runs
MaxTicks == 1
\* entries of the collections and of the activity log of one entity, together
MaxEntries == 2
\* seconds the clock advances while an entity is in use
MaxAdvance == 1

-----------------------------------------------------------------------------
(* Sequence helpers *)

Range(s) == {s[i] : i \in 1..Len(s)}

Count(s, x) == Cardinality({i \in 1..Len(s) : s[i] = x})

\* Vec::contains
Contains(s, x) == \E i \in 1..Len(s) : s[i] = x

\* Vec::push
Push(s, x) == Append(s, x)

\* Vec::insert(0, x)
Insert0(s, x) == <<x>> \o s

NoDuplicates(s) == \A i, j \in 1..Len(s) : s[i] = s[j] => i = j

-----------------------------------------------------------------------------
(* The catalog: scaffolding-macros/src/lib.rs:9-22 *)

ADDRESS == "addresses"
EMAIL == "email_addresses"
METADATA == "metadata"
PHONE == "phone_numbers"
NOTES == "notes"
TAGS == "tags"

\* variant: the list without its first entry
CORE_ATTRS_missing_id ==
    <<"created_dtm", "modified_dtm", "inactive_dtm", "expired_dtm", "activity">>

CORE_ATTRS ==
    <<"id", "created_dtm", "modified_dtm", "inactive_dtm", "expired_dtm", "activity">>

\* the six optional capabilities, in the order both macros test them
Capabilities == <<ADDRESS, EMAIL, METADATA, NOTES, PHONE, TAGS>>

\* the fields scaffolding_struct documents as always added
CoreFields ==
    <<"id", "created_dtm", "modified_dtm", "inactive_dtm", "expired_dtm", "activity">>

-----------------------------------------------------------------------------
(* Attribute arguments: struct Args and impl Parse for Args *)

LitStr(v) == [kind |-> "LitStr", value |-> v]
Ident(v) == [kind |-> "Ident", value |-> v]

\* Punctuated::<LitStr, Token![,]>::parse_terminated: every argument has to
\* be a string literal, otherwise the parse is an error
ArgsParse(tokens) ==
    IF \A i \in 1..Len(tokens) : tokens[i].kind = "LitStr"
    THEN [ok |-> TRUE, vars |-> [i \in 1..Len(tokens) |-> tokens[i].value]]
    ELSE [ok |-> FALSE, vars |-> <<>>]

-----------------------------------------------------------------------------
(* scaffolding_struct *)

Field(n, t) == [name |-> n, ty |-> t]

PushIf(fields, cond, f) == IF cond THEN Push(fields, f) ELSE fields

\* variant: the fields of the struct come after the fields added
AugmentFields_before(named, attrs) ==
    LET f1 == <<Field("id", "String"), Field("created_dtm", "i64"),
                Field("modified_dtm", "i64"), Field("inactive_dtm", "i64"),
                Field("expired_dtm", "i64"), Field("activity", "Vec<ActivityItem>")>>
        f7 == PushIf(f1, Contains(attrs, ADDRESS),
                     Field("addresses", "BTreeMap<String, Address>"))
        f8 == PushIf(f7, Contains(attrs, EMAIL),
                     Field("email_addresses", "BTreeMap<String, EmailAddress>"))
        f9 == PushIf(f8, Contains(attrs, METADATA),
                     Field("metadata", "BTreeMap<String, String>"))
        f10 == PushIf(f9, Contains(attrs, NOTES),
                      Field("notes", "BTreeMap<String, Note>"))
        f11 == PushIf(f10, Contains(attrs, PHONE),
                      Field("phone_numbers", "BTreeMap<String, PhoneNumber>"))
        f12 == PushIf(f11, Contains(attrs, TAGS),
                      Field("tags", "Vec<String>"))
    IN  f12 \o named

\* the fields pushed onto fields.named, in the order of the source
AugmentFields(named, attrs) ==
    LET f1 == Push(named, Field("id", "String"))
        f2 == Push(f1, Field("created_dtm", "i64"))
        f3 == Push(f2, Field("modified_dtm", "i64"))
        f4 == Push(f3, Field("inactive_dtm", "i64"))
        f5 == Push(f4, Field("expired_dtm", "i64"))
        f6 == Push(f5, Field("activity", "Vec<ActivityItem>"))
        f7 == PushIf(f6, Contains(attrs, ADDRESS),
                     Field("addresses", "BTreeMap<String, Address>"))
        f8 == PushIf(f7, Contains(attrs, EMAIL),
                     Field("email_addresses", "BTreeMap<String, EmailAddress>"))
        f9 == PushIf(f8, Contains(attrs, METADATA),
                     Field("metadata", "BTreeMap<String, String>"))
        f10 == PushIf(f9, Contains(attrs, NOTES),
                      Field("notes", "BTreeMap<String, Note>"))
        f11 == PushIf(f10, Contains(attrs, PHONE),
                      Field("phone_numbers", "BTreeMap<String, PhoneNumber>"))
        f12 == PushIf(f11, Contains(attrs, TAGS),
                      Field("tags", "Vec<String>"))
    IN  f12

ScaffoldingStruct ==
    /\ ent_status = "none"
    /\ struct_status \in {"authored", "expanded"}
    /\ augment_count < MaxAugment
    /\ LET parsed == ArgsParse(args) IN
         IF parsed.ok
         THEN /\ item_struct' = AugmentFields(item_struct, parsed.vars)
              /\ struct_status' = "expanded"
         ELSE /\ item_struct' = item_struct
              /\ struct_status' = "compile_error"
    /\ augment_count' = augment_count + 1
    /\ UNCHANGED <<args, struct_authored, fn_item, fn_authored, fn_status>>
    /\ UNCHANGED <<tagVars, ctorVars, entVars>>

-----------------------------------------------------------------------------
(* scaffolding_fn *)

FieldValue(m, e) == [member |-> m, expr |-> e]

PushAttrIf(list, cond, a) == IF cond THEN Push(list, a) ELSE list

\* variant: the EMAIL test left out
modify_attr_list_missing_email(attrs) ==
    LET l0 == <<"id", "created_dtm", "modified_dtm", "inactive_dtm",
                "expired_dtm", "activity">>
        l1 == PushAttrIf(l0, Contains(attrs, ADDRESS), ADDRESS)
        l3 == PushAttrIf(l1, Contains(attrs, METADATA), METADATA)
        l4 == PushAttrIf(l3, Contains(attrs, NOTES), NOTES)
        l5 == PushAttrIf(l4, Contains(attrs, PHONE), PHONE)
        l6 == PushAttrIf(l5, Contains(attrs, TAGS), TAGS)
    IN  l6

\* lines 483-532: the attributes the struct literal has to set
modify_attr_list(attrs) ==
    LET l0 == <<"id", "created_dtm", "modified_dtm", "inactive_dtm",
                "expired_dtm", "activity">>
        l1 == PushAttrIf(l0, Contains(attrs, ADDRESS), ADDRESS)
        l2 == PushAttrIf(l1, Contains(attrs, EMAIL), EMAIL)
        l3 == PushAttrIf(l2, Contains(attrs, METADATA), METADATA)
        l4 == PushAttrIf(l3, Contains(attrs, NOTES), NOTES)
        l5 == PushAttrIf(l4, Contains(attrs, PHONE), PHONE)
        l6 == PushAttrIf(l5, Contains(attrs, TAGS), TAGS)
    IN  l6

\* Vec::retain_mut(|a| *a != mbr)
RetainNot(list, mbr) == SelectSeq(list, LAMBDA a : a # mbr)

\* lines 534-550: drop from the list what the literal already sets; only a
\* member that is one of CORE_ATTRS is looked at
RECURSIVE RetainUnset(_, _, _)
RetainUnset(list, fields, f) ==
    IF f > Len(fields) THEN list
    ELSE IF Contains(CORE_ATTRS, fields[f].member)
         THEN RetainUnset(RetainNot(list, fields[f].member), fields, f + 1)
         ELSE RetainUnset(list, fields, f + 1)

\* variant: the expressions of inactive_dtm and expired_dtm exchanged
DefaultLine_dates_swapped(attr) ==
    CASE attr = "id" -> FieldValue("id", "defaults::id()")
      [] attr = "created_dtm" -> FieldValue("created_dtm", "defaults::now()")
      [] attr = "modified_dtm" -> FieldValue("modified_dtm", "defaults::now()")
      [] attr = "inactive_dtm" ->
            FieldValue("inactive_dtm", "defaults::add_years(defaults::now(), 3)")
      [] attr = "expired_dtm" ->
            FieldValue("expired_dtm", "defaults::add_days(defaults::now(), 90)")
      [] attr = "activity" -> FieldValue("activity", "Vec::new()")
      [] attr \in {"tags"} -> FieldValue(attr, "Vec::new()")
      [] OTHER -> FieldValue(attr, "BTreeMap::new()")

\* lines 555-612: the initializer the match arm of an attribute builds
DefaultLine(attr) ==
    CASE attr = "id" -> FieldValue("id", "defaults::id()")
      [] attr = "created_dtm" -> FieldValue("created_dtm", "defaults::now()")
      [] attr = "modified_dtm" -> FieldValue("modified_dtm", "defaults::now()")
      [] attr = "inactive_dtm" ->
            FieldValue("inactive_dtm", "defaults::add_days(defaults::now(), 90)")
      [] attr = "expired_dtm" ->
            FieldValue("expired_dtm", "defaults::add_years(defaults::now(), 3)")
      [] attr = "activity" -> FieldValue("activity", "Vec::new()")
      [] attr = "metadata" -> FieldValue("metadata", "BTreeMap::new()")
      [] attr = "notes" -> FieldValue("notes", "BTreeMap::new()")
      [] attr = "tags" -> FieldValue("tags", "Vec::new()")
      [] attr = "addresses" -> FieldValue("addresses", "BTreeMap::new()")
      [] attr = "email_addresses" ->
            FieldValue("email_addresses", "BTreeMap::new()")
      [] attr = "phone_numbers" -> FieldValue("phone_numbers", "BTreeMap::new()")

\* lines 552-613: each missing attribute is inserted at the front
RECURSIVE AddMissing(_, _, _)
AddMissing(fields, list, i) ==
    IF i > Len(list) THEN fields
    ELSE AddMissing(Insert0(fields, DefaultLine(list[i])), list, i + 1)

\* what the Struct(expr_struct) arm does to the literal's fields
InjectDefaults(fields, attrs) ==
    AddMissing(fields, RetainUnset(modify_attr_list(attrs), fields, 1), 1)

\* variant: every struct literal of the block is taken
ModifyStmt_any(stmt, attrs) ==
    IF stmt.fields # <<>>
    THEN [stmt EXCEPT !.fields = InjectDefaults(stmt.fields, attrs)]
    ELSE stmt

\* lines 478-623: only a statement that is an expression without a trailing
\* semicolon and that is a struct literal is changed
ModifyStmt(stmt, attrs) ==
    IF stmt.kind = "Expr" /\ ~stmt.semi /\ stmt.expr = "Struct"
    THEN [stmt EXCEPT !.fields = InjectDefaults(stmt.fields, attrs)]
    ELSE stmt

ModifyFn(item, attrs) ==
    IF item.name = "new"
    THEN [item EXCEPT !.stmts =
             [s \in 1..Len(item.stmts) |-> ModifyStmt(item.stmts[s], attrs)]]
    ELSE item

\* the fields of the struct literal that ends the function
TailFields(item) == item.stmts[Len(item.stmts)].fields

ScaffoldingFn ==
    /\ fn_status = "authored"
    /\ LET parsed == ArgsParse(args) IN
         IF parsed.ok
         THEN /\ fn_item' = ModifyFn(fn_item, parsed.vars)
              /\ fn_status' = "expanded"
         ELSE /\ fn_item' = fn_item
              /\ fn_status' = "compile_error"
    /\ UNCHANGED <<args, item_struct, struct_authored, struct_status,
                   augment_count, fn_authored>>
    /\ UNCHANGED <<tagVars, ctorVars, entVars>>

-----------------------------------------------------------------------------
(* impl ScaffoldingTags: add_tag, has_tag, remove_tag *)

\* .cloned().collect::<String>(): the strings of a sequence, concatenated
RECURSIVE CollectString(_)
CollectString(s) ==
    IF s = <<>> THEN "" ELSE Head(s) \o CollectString(Tail(s))

\* the matching tags are collected into one String and its length decides
has_tag(ts, tag) ==
    LET results == CollectString(SelectSeq(ts, LAMBDA t : t = tag))
    IN  IF Len(results) = 0 THEN FALSE ELSE TRUE

\* "don't add duplicates": push unless has_tag says the tag is there
add_tag(ts, tag) ==
    IF has_tag(ts, tag) = FALSE THEN Push(ts, tag) ELSE ts

\* Iterator::position: the first index that matches, None (0) without one
Position(ts, tag) ==
    IF \E i \in 1..Len(ts) : ts[i] = tag
    THEN CHOOSE i \in 1..Len(ts) : ts[i] = tag /\ \A j \in 1..(i - 1) : ts[j] # tag
    ELSE 0

\* Vec::remove(pos): the later elements move one place to the front
VecRemove(ts, pos) == SubSeq(ts, 1, pos - 1) \o SubSeq(ts, pos + 1, Len(ts))

\* Vec::swap_remove(pos): the last element takes the place of the removed one
VecSwapRemove(ts, pos) ==
    IF pos = Len(ts) THEN SubSeq(ts, 1, Len(ts) - 1)
    ELSE [i \in 1..(Len(ts) - 1) |-> IF i = pos THEN ts[Len(ts)] ELSE ts[i]]

\* variant: swap_remove in place of remove
remove_tag_swap(ts, tag) ==
    LET pos == Position(ts, tag)
    IN  IF pos = 0 THEN [panicked |-> TRUE, tags |-> ts]
        ELSE [panicked |-> FALSE, tags |-> VecSwapRemove(ts, pos)]

\* variant: a missing tag is skipped
remove_tag_if_present(ts, tag) ==
    LET pos == Position(ts, tag)
    IN  IF pos = 0 THEN [panicked |-> FALSE, tags |-> ts]
        ELSE [panicked |-> FALSE, tags |-> VecRemove(ts, pos)]

\* position(..).unwrap() panics on None before anything is removed
remove_tag(ts, tag) ==
    LET pos == Position(ts, tag)
    IN  IF pos = 0 THEN [panicked |-> TRUE, tags |-> ts]
        ELSE [panicked |-> FALSE, tags |-> VecRemove(ts, pos)]

\* the strings callers pass as tags
TagValues == {"", "tag_1", "tag_2", "tag_3"}

Call(op, tag, before, result) ==
    [op |-> op, tag |-> tag, before |-> before, result |-> result]

NoCall == Call("none", "", <<>>, FALSE)

AddTag(tag) ==
    /\ tags_status = "ok"
    /\ Len(tags) < MaxTags
    /\ tags' = add_tag(tags, tag)
    /\ last_call' = Call("add_tag", tag, tags, FALSE)
    /\ UNCHANGED tags_status
    /\ UNCHANGED <<macroVars, ctorVars, entVars>>

HasTag(tag) ==
    /\ tags_status = "ok"
    /\ last_call' = Call("has_tag", tag, tags, has_tag(tags, tag))
    /\ UNCHANGED <<tags, tags_status>>
    /\ UNCHANGED <<macroVars, ctorVars, entVars>>

RemoveTag(tag) ==
    /\ tags_status = "ok"
    /\ LET r == remove_tag(tags, tag) IN
         /\ tags' = r.tags
         /\ tags_status' = IF r.panicked THEN "panicked" ELSE "ok"
    /\ last_call' = Call("remove_tag", tag, tags, FALSE)
    /\ UNCHANGED <<macroVars, ctorVars, entVars>>

-----------------------------------------------------------------------------
(* defaults.rs *)

\* days since 1970-01-01 -> <<year, month, day>> of the proleptic Gregorian
\* calendar, as DateTime::from_timestamp sees it
CivilFromDays(days) ==
    LET z == days + 719468
        era == z \div 146097
        doe == z - era * 146097
        yoe == (doe - doe \div 1460 + doe \div 36524 - doe \div 146096) \div 365
        doy == doe - (365 * yoe + yoe \div 4 - yoe \div 100)
        mp == (5 * doy + 2) \div 153
        d == doy - (153 * mp + 2) \div 5 + 1
        m == IF mp < 10 THEN mp + 3 ELSE mp - 9
        y == yoe + era * 400 + (IF m <= 2 THEN 1 ELSE 0)
    IN  <<y, m, d>>

DaysFromCivil(year, m, d) ==
    LET y == IF m <= 2 THEN year - 1 ELSE year
        era == y \div 400
        yoe == y - era * 400
        doy == (153 * (IF m > 2 THEN m - 3 ELSE m + 9) + 2) \div 5 + d - 1
        doe == yoe * 365 + yoe \div 4 - yoe \div 100 + doy
    IN  era * 146097 + doe - 719468

IsLeap(y) == ((y % 4) = 0 /\ (y % 100) # 0) \/ (y % 400) = 0

DaysInMonth(y, m) ==
    IF m = 2 THEN (IF IsLeap(y) THEN 29 ELSE 28)
    ELSE IF m \in {4, 6, 9, 11} THEN 30 ELSE 31

SecondsPerDay == 86400

\* DateTime + Duration::try_days(days)
add_days(dtm, days) == dtm + days * SecondsPerDay

\* variant: a day past the end of the target month runs into the next month
add_months_unclamped(dtm, months) ==
    LET days == dtm \div SecondsPerDay
        secs == dtm % SecondsPerDay
        ymd == CivilFromDays(days)
        total == ymd[1] * 12 + (ymd[2] - 1) + months
        y == total \div 12
        m == (total % 12) + 1
    IN  (DaysFromCivil(y, m, 1) + ymd[3] - 1) * SecondsPerDay + secs

\* DateTime + Months::new(months): the month is moved, the day is clamped to
\* the length of the target month, the time of day is kept
add_months(dtm, months) ==
    LET days == dtm \div SecondsPerDay
        secs == dtm % SecondsPerDay
        ymd == CivilFromDays(days)
        total == ymd[1] * 12 + (ymd[2] - 1) + months
        y == total \div 12
        m == (total % 12) + 1
        d == IF ymd[3] < DaysInMonth(y, m) THEN ymd[3] ELSE DaysInMonth(y, m)
    IN  DaysFromCivil(y, m, d) * SecondsPerDay + secs

\* DateTime + Months::new(years * 12); the product is a u32 and stays far
\* below 2^32 for the years used here
add_years(dtm, years) == add_months(dtm, years * 12)

\* Uuid::new_v4().to_string(): some fresh identifier
Uuids == {"54324f57-9e6b-4142-b68d-1d4c86572d0a", "6ba7b810-9dad-41d1-80b4-00c04fd430c8"}

-----------------------------------------------------------------------------
(* The constructor new() at run time: the initializers of the expanded      *)
(* struct literal are evaluated in the order they are written, each         *)
(* defaults::now() reads the clock on its own.                              *)

EmptyVec == <<>>
EmptyMap == [k \in {} |-> k]

ReadsClock(expr) ==
    expr \in {"defaults::now()", "defaults::add_days(defaults::now(), 90)",
              "defaults::add_years(defaults::now(), 3)"}

\* the value of an initializer expression; uuid is what Uuid::new_v4 yields
Eval(expr, now, uuid) ==
    CASE expr = "defaults::id()" -> uuid
      [] expr = "defaults::now()" -> now
      [] expr = "defaults::add_days(defaults::now(), 90)" -> add_days(now, 90)
      [] expr = "defaults::add_years(defaults::now(), 3)" -> add_years(now, 3)
      [] expr = "Vec::new()" -> EmptyVec
      [] expr = "BTreeMap::new()" -> EmptyMap
      [] expr = "1711281509" -> 1711281509
      [] expr = "vec![]" -> EmptyVec
      [] expr = "vec![\"new\".to_string()]" -> <<"new">>
      [] expr = "BTreeMap::from(seed)" -> [k \in {"seed"} |-> "seed"]
      [] expr = "arg" -> TRUE
      [] expr = "msg" -> "You said it is true"
      [] OTHER -> "my unique identitifer"

\* the clock values the runs start from: the timestamp of the crate's
\* documentation and a 29th of February
ClockStarts == {1711295319, 1709208000}

\* a struct literal that names a field twice does not compile
Compiles(item) ==
    \A i, j \in 1..Len(TailFields(item)) :
        TailFields(item)[i].member = TailFields(item)[j].member => i = j

CallNew ==
    /\ fn_status = "expanded"
    /\ fn_item.name = "new"
    /\ Compiles(fn_item)
    /\ ctor_pc = 0
    /\ ctor_pc' = 1
    /\ ctor_reads' = {}
    /\ entity' = EmptyMap
    /\ UNCHANGED clock
    /\ UNCHANGED <<macroVars, tagVars, entVars>>

EvalField ==
    /\ ctor_pc \in 1..Len(TailFields(fn_item))
    /\ LET line == TailFields(fn_item)[ctor_pc] IN
         /\ \E uuid \in (IF line.expr = "defaults::id()" THEN Uuids ELSE {""}) :
                entity' = (line.member :> Eval(line.expr, clock, uuid)) @@ entity
         /\ ctor_reads' = IF ReadsClock(line.expr) THEN ctor_reads \cup {clock}
                          ELSE ctor_reads
    /\ ctor_pc' = ctor_pc + 1
    /\ UNCHANGED clock
    /\ UNCHANGED <<macroVars, tagVars, entVars>>

\* a second passes while the constructor runs
Tick ==
    /\ ctor_pc \in 1..Len(TailFields(fn_item))
    /\ \E c0 \in ClockStarts : clock - c0 \in 0..(MaxTicks - 1)
    /\ clock' = clock + 1
    /\ UNCHANGED <<ctor_pc, ctor_reads, entity>>
    /\ UNCHANGED <<macroVars, tagVars, entVars>>

Returned == ctor_pc > 0 /\ ctor_pc = Len(TailFields(fn_item)) + 1

-----------------------------------------------------------------------------
(* BTreeMap<String, _>: a function from the keys held to their values; the  *)
(* map iterates in ascending key order.                                     *)

\* the identifiers defaults::id() hands out here, in ascending string order
SubIds ==
    << "2d624160-16b1-49ce-9b90-09a82127d6ac",
       "6ba7b810-9dad-41d1-80b4-00c04fd430c8" >>

\* BTreeMap::insert: a value already under the key is replaced
BTreeInsert(map, k, v) ==
    [x \in (DOMAIN map) \cup {k} |-> IF x = k THEN v ELSE map[x]]

\* variant: the entry stays in the map
BTreeRemove_keeps(map, k) == map

\* BTreeMap::remove: nothing happens without the key
BTreeRemove(map, k) == [x \in (DOMAIN map) \ {k} |-> map[x]]

None == [some |-> FALSE]
Some(v) == [some |-> TRUE, value |-> v]

\* BTreeMap::get
BTreeGet(map, k) == IF k \in DOMAIN map THEN Some(map[k]) ELSE None

\* BTreeMap::iter: the keys in ascending order
BTreeKeys(map) == SelectSeq(SubIds, LAMBDA k : k \in DOMAIN map)

-----------------------------------------------------------------------------
(* The supporting classes of lib.rs *)

\* ActivityItem::new
ActivityItem_new(name, descr, now) ==
    [created_dtm |-> now, action |-> name, description |-> descr]

\* Address::new; now1 and now2 are what the two defaults::now() return
Address_new(a, uuid, now1, now2) ==
    [id |-> uuid, created_dtm |-> now1, modified_dtm |-> now2,
     category |-> a.category, line_1 |-> a.line_1, line_2 |-> a.line_2,
     line_3 |-> a.line_3, line_4 |-> a.line_4, country_code |-> a.country_code]

\* variant: the timestamp is left as it was
Address_update_keeps_dtm(addr, a, now) ==
    [addr EXCEPT !.category = a.category, !.line_1 = a.line_1,
                 !.line_2 = a.line_2, !.line_3 = a.line_3, !.line_4 = a.line_4,
                 !.country_code = a.country_code]

\* Address::update
Address_update(addr, a, now) ==
    [addr EXCEPT !.category = a.category, !.line_1 = a.line_1,
                 !.line_2 = a.line_2, !.line_3 = a.line_3, !.line_4 = a.line_4,
                 !.country_code = a.country_code, !.modified_dtm = now]

\* EmailAddress::new
EmailAddress_new(a, uuid, now1, now2) ==
    [id |-> uuid, created_dtm |-> now1, modified_dtm |-> now2,
     category |-> a.category, address |-> a.address]

\* PhoneNumber::new
PhoneNumber_new(a, uuid, now1, now2) ==
    [id |-> uuid, created_dtm |-> now1, modified_dtm |-> now2,
     category |-> a.category, number |-> a.number, country_code |-> a.country_code]

\* defaults::access(): called by Note::new, not defined in defaults.rs
defaults_access == "public"

\* variant: modified_dtm is read from the clock before created_dtm
Note_new_modified_first(a, uuid, now1, now2) ==
    [id |-> uuid, created_dtm |-> now2, modified_dtm |-> now1,
     author |-> a.author,
     access |-> IF a.access.some THEN a.access.value ELSE defaults_access,
     content |-> a.content]

\* Note::new
Note_new(a, uuid, now1, now2) ==
    [id |-> uuid, created_dtm |-> now1, modified_dtm |-> now2,
     author |-> a.author,
     access |-> IF a.access.some THEN a.access.value ELSE defaults_access,
     content |-> a.content]

\* variant: a missing access falls back to the default
Note_update_default_access(note, a, now) ==
    [note EXCEPT !.author = a.author, !.content = a.content,
                 !.access = IF a.access.some THEN a.access.value ELSE defaults_access,
                 !.modified_dtm = now]

\* Note::update
Note_update(note, a, now) ==
    [note EXCEPT !.author = a.author, !.content = a.content,
                 !.access = IF a.access.some THEN a.access.value ELSE note.access,
                 !.modified_dtm = now]

\* the update method of the class the collection holds
UpdateEntry(coll, e, a, now) ==
    IF coll = ADDRESS THEN Address_update(e, a, now) ELSE Note_update(e, a, now)

\* the constructor of the class the collection holds
NewEntry(coll, a, uuid, now1, now2) ==
    CASE coll = ADDRESS -> Address_new(a, uuid, now1, now2)
      [] coll = EMAIL -> EmailAddress_new(a, uuid, now1, now2)
      [] coll = PHONE -> PhoneNumber_new(a, uuid, now1, now2)
      [] coll = NOTES -> Note_new(a, uuid, now1, now2)

\* variant: a vacant entry is filled, as entry(id).or_insert_with(..) does,
\* here with the updated copy of an entry the map holds
EntryAndModify_or_insert(map, k, coll, a, now) ==
    IF k \in DOMAIN map THEN [map EXCEPT ![k] = UpdateEntry(coll, map[k], a, now)]
    ELSE IF DOMAIN map = {} THEN map
    ELSE BTreeInsert(map, k, UpdateEntry(coll, map[CHOOSE x \in DOMAIN map : TRUE], a, now))

\* entry(id).and_modify(|e| e.update(..)): the closure runs on an occupied
\* entry only and a vacant entry is dropped
EntryAndModify(map, k, coll, a, now) ==
    IF k \in DOMAIN map THEN [map EXCEPT ![k] = UpdateEntry(coll, map[k], a, now)]
    ELSE map

-----------------------------------------------------------------------------
(* String::from_utf8, String::from_utf8_lossy and str::contains. A String   *)
(* is the sequence of its code points, a Vec<u8> the sequence of its bytes. *)

IsCont(b) == b >= 128 /\ b <= 191

\* the number of bytes of the UTF-8 sequence a lead byte announces, 0 for a
\* byte that cannot lead
SeqLen(b) ==
    IF b <= 127 THEN 1
    ELSE IF b >= 194 /\ b <= 223 THEN 2
    ELSE IF b >= 224 /\ b <= 239 THEN 3
    ELSE IF b >= 240 /\ b <= 244 THEN 4
    ELSE 0

\* the second byte of a sequence has a range of its own after E0, ED, F0, F4
SecondOk(lead, b) ==
    CASE lead = 224 -> b >= 160 /\ b <= 191
      [] lead = 237 -> b >= 128 /\ b <= 159
      [] lead = 240 -> b >= 144 /\ b <= 191
      [] lead = 244 -> b >= 128 /\ b <= 143
      [] OTHER -> IsCont(b)

\* how many bytes from position i on form one valid sequence, or the
\* negated length of the invalid run that one replacement character stands for
Utf8Step(bytes, i) ==
    LET lead == bytes[i]
        n == SeqLen(lead)
        has(k) == i + k <= Len(bytes)
    IN  IF n = 0 THEN -1
        ELSE IF n = 1 THEN 1
        ELSE IF ~(has(1) /\ SecondOk(lead, bytes[i + 1])) THEN -1
        ELSE IF n = 2 THEN 2
        ELSE IF ~(has(2) /\ IsCont(bytes[i + 2])) THEN -2
        ELSE IF n = 3 THEN 3
        ELSE IF ~(has(3) /\ IsCont(bytes[i + 3])) THEN -3
        ELSE 4

CodePoint(bytes, i, n) ==
    CASE n = 1 -> bytes[i]
      [] n = 2 -> (bytes[i] - 192) * 64 + (bytes[i + 1] - 128)
      [] n = 3 -> (bytes[i] - 224) * 4096 + (bytes[i + 1] - 128) * 64
                  + (bytes[i + 2] - 128)
      [] n = 4 -> (bytes[i] - 240) * 262144 + (bytes[i + 1] - 128) * 4096
                  + (bytes[i + 2] - 128) * 64 + (bytes[i + 3] - 128)

REPLACEMENT_CHARACTER == 65533

\* String::from_utf8_lossy: every invalid run becomes U+FFFD
RECURSIVE Utf8LossyFrom(_, _)
Utf8LossyFrom(bytes, i) ==
    IF i > Len(bytes) THEN <<>>
    ELSE LET n == Utf8Step(bytes, i)
         IN  IF n > 0 THEN <<CodePoint(bytes, i, n)>> \o Utf8LossyFrom(bytes, i + n)
             ELSE <<REPLACEMENT_CHARACTER>> \o Utf8LossyFrom(bytes, i - n)

from_utf8_lossy(bytes) == Utf8LossyFrom(bytes, 1)

RECURSIVE Utf8ValidFrom(_, _)
Utf8ValidFrom(bytes, i) ==
    IF i > Len(bytes) THEN TRUE
    ELSE LET n == Utf8Step(bytes, i)
         IN  n > 0 /\ Utf8ValidFrom(bytes, i + n)

\* String::from_utf8: Ok(the text) or Err(FromUtf8Error, which holds the bytes)
from_utf8(bytes) ==
    IF Utf8ValidFrom(bytes, 1) THEN [ok |-> TRUE, value |-> Utf8LossyFrom(bytes, 1)]
    ELSE [ok |-> FALSE, value |-> bytes]

\* str::contains(&str)
StrContains(hay, needle) ==
    \E i \in 1..(Len(hay) - Len(needle) + 1) :
        SubSeq(hay, i, i + Len(needle) - 1) = needle

-----------------------------------------------------------------------------
(* The entity at run time: the methods the derive macros generate, called   *)
(* on an entity the expanded constructor returned.                          *)

\* the capabilities kept as BTreeMap<String, _>, keyed by the entry's id
IdKeyed == {ADDRESS, EMAIL, NOTES, PHONE}

EntCall(op, id, a, result) == [op |-> op, id |-> id, params |-> a, result |-> result]

NoEntCall == EntCall("", "", <<>>, <<>>)

NoLive == [fresh |-> TRUE, held |-> EmptyMap]

InUse(coll) == ent_status = "ok" /\ coll \in DOMAIN entity

\* the entries the entity holds, over its collections and its activity log
Entries ==
    LET held == {c \in IdKeyed : c \in DOMAIN entity}
        RECURSIVE Sum(_)
        Sum(S) == IF S = {} THEN 0
                  ELSE LET c == CHOOSE x \in S : TRUE
                       IN  Cardinality(DOMAIN entity[c]) + Sum(S \ {c})
    IN  Sum(held) + Len(entity["activity"])

ClockStart == 1711295319

CanAdvance == clock - ClockStart < MaxAdvance

entFrame == <<macroVars, tagVars, ctor_pc, ctor_reads, countries>>

\* the ids handed out by an insert and not removed since, with what the
\* insert was given and the time it stamped
Held(coll, uuid, a, c) ==
    [fresh |-> live.fresh /\ uuid \notin DOMAIN entity[coll],
     held  |-> [live.held EXCEPT ![coll] =
                   (uuid :> [args |-> a, created_dtm |-> c]) @@ @]]

Dropped(coll, id) ==
    [live EXCEPT !.held[coll] = [k \in (DOMAIN @) \ {id} |-> @[k]]]

\* variant: the insert also stamps the entity's modified_dtm
InsertInto_stamps(coll, op, a) ==
    /\ InUse(coll)
    /\ Entries < MaxEntries
    /\ \E uuid \in Range(SubIds), d \in {0, 1} :
         /\ d = 1 => CanAdvance
         /\ clock' = clock + d
         /\ entity' = [entity EXCEPT ![coll] =
                          BTreeInsert(@, uuid, NewEntry(coll, a, uuid, clock, clock + d)),
                                     !["modified_dtm"] = clock + d + 1]
         /\ ent_call' = EntCall(op, "", a, uuid)
         /\ live' = Held(coll, uuid, a, clock)
    /\ UNCHANGED ent_status
    /\ UNCHANGED entFrame

\* insert_*: build the entry (two reads of the clock), keep it under its own
\* id, return the id
InsertInto(coll, op, a) ==
    /\ InUse(coll)
    /\ Entries < MaxEntries
    /\ \E uuid \in Range(SubIds), d \in {0, 1} :
         /\ d = 1 => CanAdvance
         /\ clock' = clock + d
         /\ entity' = [entity EXCEPT ![coll] =
                          BTreeInsert(@, uuid, NewEntry(coll, a, uuid, clock, clock + d))]
         /\ ent_call' = EntCall(op, "", a, uuid)
         /\ live' = Held(coll, uuid, a, clock)
    /\ UNCHANGED ent_status
    /\ UNCHANGED entFrame

\* get_*: self.<coll>.get(&id)
GetFrom(coll, op, id) ==
    /\ InUse(coll)
    /\ ent_call' = EntCall(op, id, <<>>, BTreeGet(entity[coll], id))
    /\ UNCHANGED <<clock, entity, ent_status, live>>
    /\ UNCHANGED entFrame

\* remove_*: self.<coll>.remove(&id)
RemoveFrom(coll, op, id) ==
    /\ InUse(coll)
    /\ entity' = [entity EXCEPT ![coll] = BTreeRemove(@, id)]
    /\ ent_call' = EntCall(op, id, <<>>, <<>>)
    /\ live' = Dropped(coll, id)
    /\ UNCHANGED <<clock, ent_status>>
    /\ UNCHANGED entFrame

\* variant: the scan stops at the first entry of the category
search_by_category_first(map, category) ==
    LET hits == SelectSeq(BTreeKeys(map), LAMBDA k : map[k].category = category)
    IN  IF hits = <<>> THEN <<>> ELSE <<map[hits[1]]>>

\* .iter().filter(|(_k, v)| v.category == category).map(|(_k, v)| v.clone())
search_by_category(map, category) ==
    LET hits == SelectSeq(BTreeKeys(map), LAMBDA k : map[k].category = category)
    IN  [i \in 1..Len(hits) |-> map[hits[i]]]

SearchByCategory(coll, op, category) ==
    /\ InUse(coll)
    /\ ent_call' = EntCall(op, "", category, search_by_category(entity[coll], category))
    /\ UNCHANGED <<clock, entity, ent_status, live>>
    /\ UNCHANGED entFrame

\* modify_*: self.<coll>.entry(id).and_modify(|e| e.update(..))
ModifyIn(coll, op, id, a) ==
    /\ InUse(coll)
    /\ entity' = [entity EXCEPT ![coll] = EntryAndModify(@, id, coll, a, clock)]
    /\ ent_call' = EntCall(op, id, a, <<>>)
    /\ UNCHANGED <<clock, ent_status, live>>
    /\ UNCHANGED entFrame

Categories == {"billing", "home"}

AddressInputs ==
    { [category |-> "home", line_1 |-> "acmes company",
       line_2 |-> "14 Main Street", line_3 |-> "big city, NY 038845",
       line_4 |-> "USA", country_code |-> "USA"],
      [category |-> "billing", line_1 |-> "acmes company",
       line_2 |-> "25 Main Street", line_3 |-> "small town, NY 038845",
       line_4 |-> "United States", country_code |-> "US"] }

EmailInputs ==
    { [category |-> "home", address |-> "myemail@example.com"],
      [category |-> "billing", address |-> "billing@example.com"] }

PhoneInputs ==
    { [category |-> "home", number |-> "8482493561", country_code |-> "USA"],
      [category |-> "billing", number |-> "2223330000", country_code |-> "CAN"] }

InsertAddress(a) == InsertInto(ADDRESS, "insert_address", a)
GetAddress(id) == GetFrom(ADDRESS, "get_address", id)
ModifyAddress(id, a) == ModifyIn(ADDRESS, "modify_address", id, a)
SearchAddressesByCategory(c) ==
    SearchByCategory(ADDRESS, "search_addresses_by_category", c)
RemoveAddress(id) == RemoveFrom(ADDRESS, "remove_address", id)

InsertEmailAddress(a) ==
    InsertInto(EMAIL, "insert_email_address", a)
GetEmailAddress(id) == GetFrom(EMAIL, "get_email_address", id)
SearchEmailAddressesByCategory(c) ==
    SearchByCategory(EMAIL, "search_email_addresses_by_category", c)
RemoveEmailAddress(id) == RemoveFrom(EMAIL, "remove_email_address", id)

InsertPhoneNumber(a) ==
    InsertInto(PHONE, "insert_phone_number", a)
GetPhoneNumber(id) == GetFrom(PHONE, "get_phone_number", id)
SearchPhoneNumbersByCategory(c) ==
    SearchByCategory(PHONE, "search_phone_numbers_by_category", c)
RemovePhoneNumber(id) == RemoveFrom(PHONE, "remove_phone_number", id)

\* contents: the bytes of "ab", of "\u{e9}a", and bytes that are not UTF-8
NoteInputs ==
    { [author |-> "fsmith", content |-> <<97, 98>>, access |-> None],
      [author |-> "jdoe", content |-> <<195, 169, 97>>, access |-> Some("private")],
      [author |-> "fsmith", content |-> <<255, 97, 98>>, access |-> None] }

\* what modify_note is given: the two inputs with text for content
NoteUpdates == {a \in NoteInputs : Utf8ValidFrom(a.content, 1)}

\* the search strings "a", "ab" and "\u{e9}"
SearchStrings == { <<97>>, <<97, 98>>, <<233>> }

\* variant: a note matches when its whole content is the search string
NoteMatches_whole(note, search) ==
    LET cont == from_utf8(note.content) IN cont.ok /\ cont.value = search

\* cont.contains(&search), cont being the unwrapped text of the note
NoteMatches(note, search) ==
    LET cont == from_utf8(note.content) IN cont.ok /\ StrContains(cont.value, search)

\* String::from_utf8(..).map_err(..).unwrap(): an Err, whatever it was mapped
\* to, makes unwrap panic
UnwrapPanics(note) == ~from_utf8(note.content).ok

\* the loop of search_notes over self.notes.iter(), from the i-th key on
RECURSIVE SearchNotesFrom(_, _, _, _)
SearchNotesFrom(map, keys, i, search) ==
    IF i > Len(keys) THEN [panicked |-> FALSE, results |-> <<>>]
    ELSE LET note == map[keys[i]] IN
         IF UnwrapPanics(note) THEN [panicked |-> TRUE, results |-> <<>>]
         ELSE LET rest == SearchNotesFrom(map, keys, i + 1, search) IN
              IF rest.panicked THEN rest
              ELSE [panicked |-> FALSE,
                    results |-> (IF NoteMatches(note, search) THEN <<note>> ELSE <<>>)
                                \o rest.results]

search_notes(map, search) == SearchNotesFrom(map, BTreeKeys(map), 1, search)

InsertNote(a) == InsertInto(NOTES, "insert_note", a)
GetNote(id) == GetFrom(NOTES, "get_note", id)
ModifyNote(id, a) == ModifyIn(NOTES, "modify_note", id, a)
RemoveNote(id) == RemoveFrom(NOTES, "remove_note", id)

SearchNotes(search) ==
    /\ InUse(NOTES)
    /\ LET r == search_notes(entity[NOTES], search) IN
         /\ ent_status' = IF r.panicked THEN "panicked" ELSE "ok"
         /\ ent_call' = EntCall("search_notes", "", search, r.results)
    /\ UNCHANGED <<clock, entity, live>>
    /\ UNCHANGED entFrame

ActivityInputs ==
    { [name |-> "updated", descr |-> "The record was updated"],
      [name |-> "cancelled", descr |-> "The customer has cancelled their service"] }

\* variant: the new item is put in front
log_activity_front(activity, name, descr, now) ==
    <<ActivityItem_new(name, descr, now)>> \o activity

\* self.activity.push(ActivityItem::new(name, descr))
log_activity(activity, name, descr, now) ==
    Append(activity, ActivityItem_new(name, descr, now))

\* variant: the scan stops at the first item of the action
get_activity_first(activity, name) ==
    LET hits == SelectSeq(activity, LAMBDA a : a.action = name)
    IN  IF hits = <<>> THEN <<>> ELSE <<hits[1]>>

\* self.activity.iter().filter(|a| a.action == name).cloned().collect()
get_activity(activity, name) == SelectSeq(activity, LAMBDA a : a.action = name)

LogActivity(a) ==
    /\ ent_status = "ok"
    /\ Entries < MaxEntries
    /\ entity' = [entity EXCEPT !["activity"] = log_activity(@, a.name, a.descr, clock)]
    /\ ent_call' = EntCall("log_activity", "", a, <<>>)
    /\ UNCHANGED <<clock, ent_status, live>>
    /\ UNCHANGED entFrame

GetActivity(name) ==
    /\ ent_status = "ok"
    /\ ent_call' = EntCall("get_activity", "", name, get_activity(entity["activity"], name))
    /\ UNCHANGED <<clock, entity, ent_status, live>>
    /\ UNCHANGED entFrame

\* a second passes between two calls
Advance ==
    /\ ent_status = "ok"
    /\ CanAdvance
    /\ clock' = clock + 1
    /\ ent_call' = NoEntCall
    /\ UNCHANGED <<entity, ent_status, live>>
    /\ UNCHANGED entFrame

\* the value of a struct literal evaluated at one reading of the clock
RECURSIVE Construct(_, _, _, _)
Construct(fields, i, now, uuid) ==
    IF i > Len(fields) THEN EmptyMap
    ELSE Construct(fields, i + 1, now, uuid)
         @@ (fields[i].member :> Eval(fields[i].expr, now, uuid))

-----------------------------------------------------------------------------
(* serde_json as the derives of Serialize and Deserialize use it. A JSON    *)
(* text is the value it spells, members and items in the order written,     *)
(* and whether it holds white space between its tokens; a text that is no   *)
(* JSON spells the value Bad.                                               *)

Obj(members) == [kind |-> "obj", val |-> members]
Arr(items) == [kind |-> "arr", val |-> items]
Str(v) == [kind |-> "str", val |-> v]
Num(v) == [kind |-> "num", val |-> v]
Bool(v) == [kind |-> "bool", val |-> v]
Bad == [kind |-> "bad", val |-> <<>>]

Member(k, v) == [key |-> k, val |-> v]

Text(ws, json) == [ws |-> ws, json |-> json]

\* the declarations of the supporting classes
ClassFields(ty) ==
    CASE ty = "ActivityItem" ->
            <<Field("created_dtm", "i64"), Field("action", "String"),
              Field("description", "String")>>
      [] ty = "Address" ->
            <<Field("id", "String"), Field("created_dtm", "i64"),
              Field("modified_dtm", "i64"), Field("category", "String"),
              Field("line_1", "String"), Field("line_2", "String"),
              Field("line_3", "String"), Field("line_4", "String"),
              Field("country_code", "String")>>
      [] ty = "EmailAddress" ->
            <<Field("id", "String"), Field("created_dtm", "i64"),
              Field("modified_dtm", "i64"), Field("category", "String"),
              Field("address", "String")>>
      [] ty = "Note" ->
            <<Field("id", "String"), Field("created_dtm", "i64"),
              Field("modified_dtm", "i64"), Field("author", "String"),
              Field("access", "String"), Field("content", "Vec<u8>")>>
      [] ty = "PhoneNumber" ->
            <<Field("id", "String"), Field("created_dtm", "i64"),
              Field("modified_dtm", "i64"), Field("category", "String"),
              Field("number", "String"), Field("country_code", "String")>>

Classes == {"ActivityItem", "Address", "EmailAddress", "Note", "PhoneNumber"}

\* the struct under #[scaffolding_struct]
MyEntity == "MyEntity"

\* the fields of a struct in declaration order
StructFields(ty) == IF ty = MyEntity THEN item_struct ELSE ClassFields(ty)

TypeKind(ty) ==
    CASE ty \in Classes \cup {MyEntity} -> "struct"
      [] ty \in {"Vec<u8>", "Vec<String>", "Vec<ActivityItem>"} -> "vec"
      [] ty \in {"BTreeMap<String, Address>", "BTreeMap<String, EmailAddress>",
                 "BTreeMap<String, Note>", "BTreeMap<String, PhoneNumber>",
                 "BTreeMap<String, String>"} -> "map"
      [] OTHER -> ty

\* the type of the items of a Vec and of the values of a BTreeMap
ItemType(ty) ==
    CASE ty = "Vec<u8>" -> "u8"
      [] ty = "Vec<String>" -> "String"
      [] ty = "Vec<ActivityItem>" -> "ActivityItem"
      [] ty = "BTreeMap<String, Address>" -> "Address"
      [] ty = "BTreeMap<String, EmailAddress>" -> "EmailAddress"
      [] ty = "BTreeMap<String, Note>" -> "Note"
      [] ty = "BTreeMap<String, PhoneNumber>" -> "PhoneNumber"
      [] ty = "BTreeMap<String, String>" -> "String"

\* variant: the keys of a struct come out last field first
RECURSIVE Encode_reversed(_, _)
Encode_reversed(ty, v) ==
    CASE TypeKind(ty) = "struct" ->
            LET fs == StructFields(ty) IN
            Obj([i \in 1..Len(fs) |->
                   Member(fs[Len(fs) + 1 - i].name,
                          Encode_reversed(fs[Len(fs) + 1 - i].ty,
                                          v[fs[Len(fs) + 1 - i].name]))])
      [] TypeKind(ty) = "vec" ->
            Arr([i \in 1..Len(v) |-> Encode_reversed(ItemType(ty), v[i])])
      [] TypeKind(ty) = "map" ->
            LET keys == BTreeKeys(v) IN
            Obj([i \in 1..Len(keys) |->
                   Member(keys[i], Encode_reversed(ItemType(ty), v[keys[i]]))])
      [] TypeKind(ty) = "String" -> Str(v)
      [] TypeKind(ty) = "bool" -> Bool(v)
      [] OTHER -> Num(v)

\* Serialize: a struct is an object of its fields in declaration order, a
\* Vec an array, a BTreeMap an object of its entries in key order
RECURSIVE Encode(_, _)
Encode(ty, v) ==
    CASE TypeKind(ty) = "struct" ->
            LET fs == StructFields(ty) IN
            Obj([i \in 1..Len(fs) |->
                   Member(fs[i].name, Encode(fs[i].ty, v[fs[i].name]))])
      [] TypeKind(ty) = "vec" ->
            Arr([i \in 1..Len(v) |-> Encode(ItemType(ty), v[i])])
      [] TypeKind(ty) = "map" ->
            LET keys == BTreeKeys(v) IN
            Obj([i \in 1..Len(keys) |-> Member(keys[i], Encode(ItemType(ty), v[keys[i]]))])
      [] TypeKind(ty) = "String" -> Str(v)
      [] TypeKind(ty) = "bool" -> Bool(v)
      [] OTHER -> Num(v)

\* serde_json::to_string: no white space
to_string(ty, v) == Text(FALSE, Encode(ty, v))

Failed == [ok |-> FALSE, value |-> <<>>]
Decoded(v) == [ok |-> TRUE, value |-> v]

\* the position of the last member of the key
LastAt(members, k) ==
    CHOOSE i \in 1..Len(members) :
        /\ members[i].key = k
        /\ \A j \in (i + 1)..Len(members) : members[j].key # k

\* variant: the last member, whatever its key
MemberAt_last(members, k) == Len(members)

\* the position of the member of the key
MemberAt(members, k) == CHOOSE i \in 1..Len(members) : members[i].key = k

\* Deserialize takes the text: a struct wants an object with each of its
\* fields once, in any order, and skips the keys it does not know, or an
\* array of the values of its fields
RECURSIVE Accepts(_, _)
Accepts(ty, j) ==
    CASE TypeKind(ty) = "struct" /\ j.kind = "arr" ->
            LET fs == StructFields(ty)
            IN  /\ Len(j.val) = Len(fs)
                /\ \A i \in 1..Len(fs) : Accepts(fs[i].ty, j.val[i])
      [] TypeKind(ty) = "struct" ->
            /\ j.kind = "obj"
            /\ LET fs == StructFields(ty) IN
               \A i \in 1..Len(fs) :
                   /\ Cardinality({x \in 1..Len(j.val) : j.val[x].key = fs[i].name}) = 1
                   /\ Accepts(fs[i].ty, j.val[MemberAt(j.val, fs[i].name)].val)
      [] TypeKind(ty) = "vec" ->
            /\ j.kind = "arr"
            /\ \A i \in 1..Len(j.val) : Accepts(ItemType(ty), j.val[i])
      [] TypeKind(ty) = "map" ->
            /\ j.kind = "obj"
            /\ \A i \in 1..Len(j.val) : Accepts(ItemType(ty), j.val[i].val)
      [] TypeKind(ty) = "String" -> j.kind = "str"
      [] TypeKind(ty) = "bool" -> j.kind = "bool"
      [] TypeKind(ty) = "u8" -> j.kind = "num" /\ j.val \in 0..255
      [] OTHER -> j.kind = "num"

\* the value Deserialize makes of a text it takes; a BTreeMap keeps the last
\* value of a key
RECURSIVE Visit(_, _)
Visit(ty, j) ==
    CASE TypeKind(ty) = "struct" /\ j.kind = "arr" ->
            LET fs == StructFields(ty)
            IN  [n \in {fs[i].name : i \in 1..Len(fs)} |->
                   LET i == CHOOSE x \in 1..Len(fs) : fs[x].name = n
                   IN  Visit(fs[i].ty, j.val[i])]
      [] TypeKind(ty) = "struct" ->
            LET fs == StructFields(ty)
            IN  [n \in {fs[i].name : i \in 1..Len(fs)} |->
                   LET i == CHOOSE x \in 1..Len(fs) : fs[x].name = n
                   IN  Visit(fs[i].ty, j.val[MemberAt(j.val, n)].val)]
      [] TypeKind(ty) = "vec" ->
            [i \in 1..Len(j.val) |-> Visit(ItemType(ty), j.val[i])]
      [] TypeKind(ty) = "map" ->
            [k \in {j.val[i].key : i \in 1..Len(j.val)} |->
               Visit(ItemType(ty), j.val[LastAt(j.val, k)].val)]
      [] OTHER -> j.val

Decode(ty, j) == IF Accepts(ty, j) THEN Decoded(Visit(ty, j)) ELSE Failed

\* serde_json::from_slice::<ty>
from_slice(ty, text) == Decode(ty, text.json)

-----------------------------------------------------------------------------
(* Scaffolding::serialize and the deserialized functions *)

DeserializeError == "DeserializeError"

\* variant: the result of from_slice is unwrapped
deserialized_unwrap(ty, text) ==
    LET r == from_slice(ty, text)
    IN  IF r.ok THEN [panicked |-> FALSE, result |-> r]
        ELSE [panicked |-> TRUE, result |-> [ok |-> FALSE, value |-> DeserializeError]]

\* match serde_json::from_slice { Ok(item) => Ok(item), Err(_) => Err(DeserializeError) }
deserialized(ty, text) ==
    LET r == from_slice(ty, text)
    IN  [panicked |-> FALSE,
         result |-> IF r.ok THEN r ELSE [ok |-> FALSE, value |-> DeserializeError]]

\* serde_json::to_string(&self).unwrap()
serialize(ty, v) == to_string(ty, v)

\* texts made from the text c of a value: with white space, with the members
\* the other way round, with a key the type does not have, without one of
\* its keys, with a value of another type, as an array, and no JSON at all
Reversed(seq) == [i \in 1..Len(seq) |-> seq[Len(seq) + 1 - i]]

Without(members, k) == SelectSeq(members, LAMBDA m : m.key # k)

WireTexts(c) ==
    LET ms == c.json.val IN
    { c,
      Text(TRUE, c.json),
      Text(FALSE, Obj(Reversed(ms))),
      Text(FALSE, Obj(Append(ms, Member("comment", Str("n/a"))))),
      Text(FALSE, Obj(Without(ms, "created_dtm"))),
      Text(FALSE, Obj(Without(ms, ms[Len(ms)].key))),
      Text(FALSE, Obj([i \in 1..Len(ms) |->
                         IF ms[i].key = "created_dtm"
                         THEN Member(ms[i].key, Str("yesterday")) ELSE ms[i]])),
      Text(FALSE, Arr([i \in 1..Len(ms) |-> ms[i].val])),
      Text(FALSE, Bad) }

\* one value of each supporting class
ClassSample(ty) ==
    LET id == SubIds[1] IN
    CASE ty = "ActivityItem" ->
            ActivityItem_new("updated", "The record was updated", ClockStart)
      [] ty = "Address" ->
            Address_new(CHOOSE a \in AddressInputs : a.category = "home",
                        id, ClockStart, ClockStart)
      [] ty = "EmailAddress" ->
            EmailAddress_new(CHOOSE a \in EmailInputs : a.category = "home",
                             id, ClockStart, ClockStart)
      [] ty = "Note" ->
            Note_new(CHOOSE a \in NoteInputs : a.author = "jdoe",
                     id, ClockStart, ClockStart)
      [] ty = "PhoneNumber" ->
            PhoneNumber_new(CHOOSE a \in PhoneInputs : a.category = "home",
                            id, ClockStart, ClockStart)

\* the struct and the constructor are expanded and compile
Built ==
    /\ struct_status = "expanded"
    /\ fn_status = "expanded"
    /\ NoDuplicates([i \in 1..Len(item_struct) |-> item_struct[i].name])
    /\ Compiles(fn_item)
    /\ {item_struct[i].name : i \in 1..Len(item_struct)}
         = {TailFields(fn_item)[i].member : i \in 1..Len(TailFields(fn_item))}

\* texts made from the text serialize has just returned
EntityTexts ==
    IF ent_status = "ok" /\ ent_call.op = "serialize" THEN WireTexts(ent_call.result) ELSE {}

\* new(): the expanded literal evaluated at one reading of the clock
NewEntity ==
    /\ Built
    /\ ent_status = "none"
    /\ clock' = ClockStart
    /\ ctor_pc' = Len(TailFields(fn_item)) + 1
    /\ ctor_reads' = {ClockStart}
    /\ entity' = Construct(TailFields(fn_item), 1, ClockStart,
                           "54324f57-9e6b-4142-b68d-1d4c86572d0a")
    /\ ent_status' = "ok"
    /\ ent_call' = NoEntCall
    /\ live' = [fresh |-> TRUE, held |-> [c \in {x \in IdKeyed : \E i \in 1..Len(item_struct) :
                                                    item_struct[i].name = x}
                                       |-> EmptyMap]]
    /\ UNCHANGED <<macroVars, tagVars, countries>>

\* entity.serialize()
Serialize ==
    /\ ent_status = "ok"
    /\ Built
    /\ ent_call' = EntCall("serialize", "", <<>>, serialize(MyEntity, entity))
    /\ UNCHANGED <<clock, entity, ent_status, live>>
    /\ UNCHANGED entFrame

\* MyEntity::deserialized(text): the entity decoded takes the place of the
\* one in use
DeserializedEntity(text) ==
    /\ ent_status = "ok"
    /\ Built
    /\ LET r == deserialized(MyEntity, text) IN
         /\ ent_status' = IF r.panicked THEN "panicked" ELSE "ok"
         /\ ent_call' = EntCall("deserialized", MyEntity, text, r.result)
         /\ entity' = IF r.result.ok THEN r.result.value ELSE entity
         /\ live' = IF r.result.ok
                    THEN [fresh |-> TRUE, held |-> [c \in DOMAIN live.held |-> EmptyMap]]
                    ELSE live
    /\ UNCHANGED clock
    /\ UNCHANGED entFrame

\* ActivityItem::deserialized(text), Address::deserialized(text), ..
DeserializedClass(ty, text) ==
    /\ ent_status = "ok"
    /\ LET r == deserialized(ty, text) IN
         /\ ent_status' = IF r.panicked THEN "panicked" ELSE "ok"
         /\ ent_call' = EntCall("deserialized", ty, text, r.result)
    /\ UNCHANGED <<clock, entity, live>>
    /\ UNCHANGED entFrame

-----------------------------------------------------------------------------
(* The items the macros are applied to *)

BoundedSeqs(S, n) == UNION {[1..k -> S] : k \in 0..n}

\* the requested capabilities, as string literals in catalog order
CapArgs(C) ==
    LET wanted == SelectSeq(Capabilities, LAMBDA c : c \in C)
    IN  [i \in 1..Len(wanted) |-> LitStr(wanted[i])]

\* a capability named a second time, a name outside the catalog, and an
\* argument that is not a string literal
ExtraArgs == {LitStr(TAGS), LitStr("bogus"), Ident(TAGS)}

AttrLists ==
    {CapArgs(C) \o extra :
        C \in SUBSET Range(Capabilities),
        extra \in BoundedSeqs(ExtraArgs, MaxExtraArgs)}

\* struct MyEntity { a: bool, b: String }, as in the crate documentation,
\* and structs that declare a catalog field themselves
BaseStructs ==
    { <<Field("a", "bool"), Field("b", "String")>>,
      <<Field("id", "String"), Field("a", "bool")>>,
      <<Field("tags", "Vec<String>"), Field("a", "bool")>>,
      <<>> }

\* the expression a user writes for a field in the struct literal
UserExpr(f) ==
    CASE f = "id" -> "\"my unique identitifer\".to_string()"
      [] f \in {"created_dtm", "modified_dtm", "inactive_dtm", "expired_dtm"} ->
            "1711281509"
      [] f = "activity" -> "vec![]"
      [] f = "tags" -> "vec![\"new\".to_string()]"
      [] OTHER -> "BTreeMap::from(seed)"

UserLines(names, S) ==
    LET set == SelectSeq(names, LAMBDA f : f \in S)
    IN  [i \in 1..Len(set) |-> FieldValue(set[i], UserExpr(set[i]))]

LetStmt == [kind |-> "Local", semi |-> TRUE, expr |-> "Macro", fields |-> <<>>]

StructTail(fields) ==
    [kind |-> "Expr", semi |-> FALSE, expr |-> "Struct", fields |-> fields]

\* fn new(arg) -> Self { let msg = format!(..); Self { <E>, <X>, a: arg, b: msg } }
NewFn(E, X) ==
    [name |-> "new",
     stmts |-> << LetStmt,
                  StructTail(UserLines(CoreFields, E) \o UserLines(Capabilities, X)
                             \o <<FieldValue("a", "arg"), FieldValue("b", "msg")>>) >>]

\* a function of another name that ends in a struct literal
HelloFn ==
    [name |-> "hello",
     stmts |-> << StructTail(<<FieldValue("a", "arg"), FieldValue("b", "msg")>>) >>]

FnItems ==
    {NewFn(E, X) :
        E \in SUBSET Range(CoreFields),
        X \in {Y \in SUBSET Range(Capabilities) : Cardinality(Y) <= MaxExplicitCaps}}
    \cup {HelloFn}

NoFn == [name |-> "", stmts |-> <<>>]

\* no constructor is running
NoUse ==
    /\ ent_status = "none"
    /\ ent_call = NoEntCall
    /\ live = NoLive
    /\ countries = <<>>

NoCtor ==
    /\ clock = 0
    /\ ctor_pc = 0
    /\ ctor_reads = {}
    /\ entity = EmptyMap
    /\ NoUse

\* no entity has been constructed
NoEntity ==
    /\ tags = <<>>
    /\ tags_status = "none"
    /\ last_call = NoCall
    /\ NoCtor

\* no item is under expansion
NoMacro ==
    /\ args = <<>>
    /\ item_struct = <<>>
    /\ struct_authored = <<>>
    /\ struct_status = "none"
    /\ augment_count = 0
    /\ fn_item = NoFn
    /\ fn_authored = NoFn
    /\ fn_status = "none"

-----------------------------------------------------------------------------
(* Specification of the type augmenter next to a constructor that sets no   *)
(* catalog field                                                            *)

InitType ==
    /\ args \in AttrLists
    /\ item_struct \in BaseStructs
    /\ struct_authored = item_struct
    /\ struct_status = "authored"
    /\ augment_count = 0
    /\ fn_item = NewFn({}, {})
    /\ fn_authored = fn_item
    /\ fn_status = "authored"
    /\ NoEntity

NextType == ScaffoldingStruct \/ ScaffoldingFn

SpecType == InitType /\ [][NextType]_vars

(* Specification of the constructor injector *)

InitFn ==
    /\ args \in AttrLists
    /\ item_struct = <<>>
    /\ struct_authored = <<>>
    /\ struct_status = "none"
    /\ augment_count = 0
    /\ fn_item \in FnItems
    /\ fn_authored = fn_item
    /\ fn_status = "authored"
    /\ NoEntity

NextFn == ScaffoldingFn

SpecFn == InitFn /\ [][NextFn]_vars

(* Specification of the tags of an entity built with Vec::new() *)

InitTags ==
    /\ NoMacro
    /\ NoCtor
    /\ tags = <<>>
    /\ tags_status = "ok"
    /\ last_call = NoCall

NextTags ==
    \E tag \in TagValues : AddTag(tag) \/ HasTag(tag) \/ RemoveTag(tag)

SpecTags == InitTags /\ [][NextTags]_vars

(* Specification of a constructor: expanded at build time, run under a     *)
(* clock that may advance                                                   *)

LifecycleDtms == {"created_dtm", "modified_dtm", "inactive_dtm", "expired_dtm"}

InitCtor ==
    /\ args \in {CapArgs(C) : C \in SUBSET Range(Capabilities)}
    /\ item_struct = <<>>
    /\ struct_authored = <<>>
    /\ struct_status = "none"
    /\ augment_count = 0
    /\ fn_item \in {NewFn(E, {}) : E \in SUBSET LifecycleDtms}
    /\ fn_authored = fn_item
    /\ fn_status = "authored"
    /\ tags = <<>>
    /\ tags_status = "none"
    /\ last_call = NoCall
    /\ clock \in ClockStarts
    /\ ctor_pc = 0
    /\ ctor_reads = {}
    /\ NoUse
    /\ entity = EmptyMap

NextCtor == ScaffoldingFn \/ CallNew \/ EvalField \/ Tick

SpecCtor == InitCtor /\ [][NextCtor]_vars

(* Specification of an entity in use: one id-keyed capability, its          *)
(* collection and its activity log empty as new() returned them             *)

EntityCaps == {{c} : c \in IdKeyed}

Entity(C) ==
    /\ args = CapArgs(C)
    /\ fn_authored = NewFn({}, {})
    /\ fn_item = ModifyFn(fn_authored, ArgsParse(args).vars)
    /\ fn_status = "expanded"
    /\ item_struct = <<>>
    /\ struct_authored = <<>>
    /\ struct_status = "none"
    /\ augment_count = 0
    /\ tags = <<>>
    /\ tags_status = "none"
    /\ last_call = NoCall
    /\ clock = ClockStart
    /\ ctor_pc = Len(TailFields(fn_item)) + 1
    /\ ctor_reads = {ClockStart}
    /\ entity = Construct(TailFields(fn_item), 1, ClockStart,
                          "54324f57-9e6b-4142-b68d-1d4c86572d0a")
    /\ ent_status = "ok"
    /\ ent_call = NoEntCall
    /\ live = [fresh |-> TRUE, held |-> [c \in C |-> EmptyMap]]
    /\ countries = <<>>

InitEntity == \E C \in EntityCaps : Entity(C)

NextEntity ==
    \/ \E a \in AddressInputs : InsertAddress(a)
    \/ \E id \in Range(SubIds) : GetAddress(id)
    \/ \E id \in Range(SubIds), a \in AddressInputs : ModifyAddress(id, a)
    \/ \E c \in Categories : SearchAddressesByCategory(c)
    \/ \E id \in Range(SubIds) : RemoveAddress(id)
    \/ \E a \in EmailInputs : InsertEmailAddress(a)
    \/ \E id \in Range(SubIds) : GetEmailAddress(id)
    \/ \E c \in Categories : SearchEmailAddressesByCategory(c)
    \/ \E id \in Range(SubIds) : RemoveEmailAddress(id)
    \/ \E a \in PhoneInputs : InsertPhoneNumber(a)
    \/ \E id \in Range(SubIds) : GetPhoneNumber(id)
    \/ \E c \in Categories : SearchPhoneNumbersByCategory(c)
    \/ \E id \in Range(SubIds) : RemovePhoneNumber(id)
    \/ \E a \in NoteInputs : InsertNote(a)
    \/ \E id \in Range(SubIds) : GetNote(id)
    \/ \E id \in Range(SubIds), a \in NoteUpdates : ModifyNote(id, a)
    \/ \E search \in SearchStrings : SearchNotes(search)
    \/ \E id \in Range(SubIds) : RemoveNote(id)
    \/ Advance

SpecEntity == InitEntity /\ [][NextEntity]_vars

(* Specification of the four id-keyed collections under insert, get and     *)
(* remove alone                                                             *)

NextStore ==
    \/ \E a \in AddressInputs : InsertAddress(a)
    \/ \E id \in Range(SubIds) : GetAddress(id)
    \/ \E id \in Range(SubIds) : RemoveAddress(id)
    \/ \E a \in EmailInputs : InsertEmailAddress(a)
    \/ \E id \in Range(SubIds) : GetEmailAddress(id)
    \/ \E id \in Range(SubIds) : RemoveEmailAddress(id)
    \/ \E a \in PhoneInputs : InsertPhoneNumber(a)
    \/ \E id \in Range(SubIds) : GetPhoneNumber(id)
    \/ \E id \in Range(SubIds) : RemovePhoneNumber(id)
    \/ \E a \in NoteInputs : InsertNote(a)
    \/ \E id \in Range(SubIds) : GetNote(id)
    \/ \E id \in Range(SubIds) : RemoveNote(id)
    \/ Advance

SpecStore == InitEntity /\ [][NextStore]_vars

(* Specification of the activity log of an entity that also keeps addresses *)

InitActivity == Entity({ADDRESS})

NextActivity ==
    \/ \E a \in ActivityInputs : LogActivity(a)
    \/ \E name \in {"updated", "cancelled", "read"} : GetActivity(name)
    \/ \E a \in AddressInputs : InsertAddress(a)
    \/ \E id \in Range(SubIds) : RemoveAddress(id)
    \/ Advance

SpecActivity == InitActivity /\ [][NextActivity]_vars

(* Specification of the wire format: the struct and the constructor are     *)
(* expanded, an entity is made and used, written to JSON and read back      *)

InitWire ==
    /\ args \in {CapArgs({NOTES}), <<LitStr(NOTES), LitStr(ADDRESS)>>}
    /\ item_struct = <<Field("a", "bool"), Field("b", "String")>>
    /\ struct_authored = item_struct
    /\ struct_status = "authored"
    /\ augment_count = 0
    /\ fn_item = NewFn({}, {})
    /\ fn_authored = fn_item
    /\ fn_status = "authored"
    /\ NoEntity

NextWire ==
    \/ ScaffoldingStruct
    \/ ScaffoldingFn
    \/ NewEntity
    \/ \E a \in ActivityInputs : LogActivity(a)
    \/ \E a \in {n \in NoteInputs : n.author = "fsmith"} : InsertNote(a)
    \/ Serialize
    \/ \E text \in EntityTexts : DeserializedEntity(text)

SpecWire == InitWire /\ [][NextWire]_vars

(* Specification of the deserialized functions of the entity and of the     *)
(* supporting classes                                                       *)

NextDecode ==
    \/ ScaffoldingStruct
    \/ ScaffoldingFn
    \/ NewEntity
    \/ \E a \in ActivityInputs : LogActivity(a)
    \/ Serialize
    \/ \E text \in EntityTexts : DeserializedEntity(text)
    \/ \E ty \in Classes :
         \E text \in WireTexts(serialize(ty, ClassSample(ty))) :
             DeserializedClass(ty, text)

SpecDecode == InitWire /\ [][NextDecode]_vars

-----------------------------------------------------------------------------
(* Specification of the date arithmetic of the defaults: add_days,          *)
(* add_months and add_years applied to a timestamp                          *)

\* 2023-01-29 12:00:00, 2024-02-29 12:00:00 and 2024-03-24 15:48:39 of the
\* tests, 2023-12-31 00:00:00 and 2024-01-31 23:59:59
Timestamps == {1674993600, 1709208000, 1711295319, 1703980800, 1706745599}

AddDays(days) ==
    /\ ent_call' = EntCall("add_days", "", <<clock, days>>, add_days(clock, days))
    /\ UNCHANGED <<clock, entity, ent_status, live>>
    /\ UNCHANGED entFrame

AddMonths(months) ==
    /\ ent_call' = EntCall("add_months", "", <<clock, months>>, add_months(clock, months))
    /\ UNCHANGED <<clock, entity, ent_status, live>>
    /\ UNCHANGED entFrame

AddYears(years) ==
    /\ ent_call' = EntCall("add_years", "", <<clock, years>>, add_years(clock, years))
    /\ UNCHANGED <<clock, entity, ent_status, live>>
    /\ UNCHANGED entFrame

InitDates ==
    /\ NoMacro
    /\ tags = <<>>
    /\ tags_status = "none"
    /\ last_call = NoCall
    /\ clock \in Timestamps
    /\ ctor_pc = 0
    /\ ctor_reads = {}
    /\ entity = EmptyMap
    /\ NoUse

NextDates ==
    \/ \E days \in {1, 90} : AddDays(days)
    \/ \E months \in 0..MaxMonths : AddMonths(months)
    \/ \E years \in 0..MaxYears : AddYears(years)

SpecDates == InitDates /\ [][NextDates]_vars

-----------------------------------------------------------------------------

(* Countries: the list of countries and its lookups *)

Country_new(name, phone_code, iso_2_code, iso_3_code) ==
    [name |-> name, phone_code |-> phone_code,
     iso_2_code |-> iso_2_code, iso_3_code |-> iso_3_code]

\* variant: the first item of the iterator
IterLast_first(found) == IF found = <<>> THEN None ELSE Some(found[1])

\* Iterator::last
IterLast(found) == IF found = <<>> THEN None ELSE Some(found[Len(found)])

is_valid(list, country) ==
    LET found == SelectSeq(list, LAMBDA c :
                     /\ c.name = country.name
                     /\ c.phone_code = country.phone_code
                     /\ c.iso_2_code = country.iso_2_code
                     /\ c.iso_3_code = country.iso_3_code)
    IN  IF Len(found) = 0 THEN FALSE ELSE TRUE

get_country_by_iso_2_code(list, iso_2_code) ==
    IterLast(SelectSeq(list, LAMBDA c : c.iso_2_code = iso_2_code))

get_country_by_iso_3_code(list, iso_3_code) ==
    IterLast(SelectSeq(list, LAMBDA c : c.iso_3_code = iso_3_code))

get_country_by_phone_code(list, phone_code) ==
    IterLast(SelectSeq(list, LAMBDA c : c.phone_code = phone_code))

\* records of the list the tests name, and the candidate of
\* test_countries_is_valid_false
CountrySamples ==
    { Country_new("Afghanistan", "93", "AF", "AFG"),
      Country_new("Canada", "1", "CA", "CAN"),
      Country_new("United States", "1", "US", "USA"),
      Country_new("United States", "1", "US", "ABC") }

Iso2Codes == {"AF", "CA", "US", "ZZ"}
Iso3Codes == {"AFG", "CAN", "USA", "ABC"}
PhoneCodes == {"1", "93", "44"}

countriesFrame == <<clock, entity, ent_status, live>>

IsValid(country) ==
    /\ ent_call' = EntCall("is_valid", "", country, is_valid(countries, country))
    /\ UNCHANGED countriesFrame
    /\ UNCHANGED entFrame

GetCountryByIso2Code(code) ==
    /\ ent_call' = EntCall("get_country_by_iso_2_code", "", code,
                           get_country_by_iso_2_code(countries, code))
    /\ UNCHANGED countriesFrame
    /\ UNCHANGED entFrame

GetCountryByIso3Code(code) ==
    /\ ent_call' = EntCall("get_country_by_iso_3_code", "", code,
                           get_country_by_iso_3_code(countries, code))
    /\ UNCHANGED countriesFrame
    /\ UNCHANGED entFrame

GetCountryByPhoneCode(code) ==
    /\ ent_call' = EntCall("get_country_by_phone_code", "", code,
                           get_country_by_phone_code(countries, code))
    /\ UNCHANGED countriesFrame
    /\ UNCHANGED entFrame

InitCountries ==
    /\ NoMacro
    /\ tags = <<>>
    /\ tags_status = "none"
    /\ last_call = NoCall
    /\ clock = 0
    /\ ctor_pc = 0
    /\ ctor_reads = {}
    /\ entity = EmptyMap
    /\ ent_status = "none"
    /\ ent_call = NoEntCall
    /\ live = NoLive
    /\ countries \in BoundedSeqs(CountrySamples, MaxCountries)

NextCountries ==
    \/ \E country \in CountrySamples : IsValid(country)
    \/ \E code \in Iso2Codes : GetCountryByIso2Code(code)
    \/ \E code \in Iso3Codes : GetCountryByIso3Code(code)
    \/ \E code \in PhoneCodes : GetCountryByPhoneCode(code)

SpecCountries == InitCountries /\ [][NextCountries]_vars

-----------------------------------------------------------------------------

(* Specification of an entity with every capability in use: the four        *)
(* collections, the tags (the field tags of the entity is the variable      *)
(* tags) and the activity log, some time after the entity was made          *)

InitFrame ==
    /\ args = CapArgs({ADDRESS, EMAIL, NOTES, PHONE, TAGS})
    /\ fn_authored = NewFn({}, {})
    /\ fn_item = ModifyFn(fn_authored, ArgsParse(args).vars)
    /\ fn_status = "expanded"
    /\ item_struct = <<>>
    /\ struct_authored = <<>>
    /\ struct_status = "none"
    /\ augment_count = 0
    /\ tags = <<>>
    /\ tags_status = "ok"
    /\ last_call = NoCall
    /\ clock = ClockStart + MaxAdvance
    /\ ctor_pc = Len(TailFields(fn_item)) + 1
    /\ ctor_reads = {ClockStart}
    /\ entity = LET new == Construct(TailFields(fn_item), 1, ClockStart,
                                     "54324f57-9e6b-4142-b68d-1d4c86572d0a")
                IN  [f \in (DOMAIN new) \ {TAGS} |-> new[f]]
    /\ ent_status = "ok"
    /\ ent_call = NoEntCall
    /\ live = [fresh |-> TRUE, held |-> [c \in IdKeyed |-> EmptyMap]]
    /\ countries = <<>>

NextFrame ==
    \/ \E a \in {x \in AddressInputs : x.category = "home"} : InsertAddress(a)
    \/ \E a \in {x \in AddressInputs : x.category = "billing"} :
          ModifyAddress(SubIds[1], a)
    \/ SearchAddressesByCategory("home")
    \/ RemoveAddress(SubIds[1])
    \/ \E a \in {x \in EmailInputs : x.category = "home"} : InsertEmailAddress(a)
    \/ SearchEmailAddressesByCategory("home")
    \/ RemoveEmailAddress(SubIds[1])
    \/ \E a \in {x \in PhoneInputs : x.category = "home"} : InsertPhoneNumber(a)
    \/ SearchPhoneNumbersByCategory("home")
    \/ RemovePhoneNumber(SubIds[1])
    \/ \E a \in {x \in NoteInputs : x.author = "jdoe"} : InsertNote(a)
    \/ \E a \in {x \in NoteUpdates : x.author = "fsmith"} : ModifyNote(SubIds[1], a)
    \/ SearchNotes(<<97>>)
    \/ RemoveNote(SubIds[1])
    \/ AddTag("tag_1")
    \/ HasTag("tag_1")
    \/ RemoveTag("tag_1")
    \/ \E a \in {x \in ActivityInputs : x.name = "updated"} : LogActivity(a)
    \/ GetActivity("updated")

SpecFrame == InitFrame /\ [][NextFrame]_vars

-----------------------------------------------------------------------------

(* Specification of the constructor injector on functions of other shapes: *)
(* the struct literal in a let binding, in a return statement, in a branch  *)
(* or a nested block, and a function of another name                        *)

Stmt(kind, semi, expr, fields) ==
    [kind |-> kind, semi |-> semi, expr |-> expr, fields |-> fields]

\* fn new(arg) -> Self { let msg = ..; let e = Self { a: arg, b: msg }; e }
\* fn new(arg) -> Self { let msg = ..; return Self { a: arg, b: msg }; }
\* fn new(arg) -> Self { let msg = ..; if arg { Self { a: arg, b: msg } } else { .. } }
\* fn new(arg) -> Self { { let msg = ..; Self { a: arg, b: msg } } }
FnShapes ==
    LET ab == <<FieldValue("a", "arg"), FieldValue("b", "msg")>> IN
    { [name |-> "new",
       stmts |-> <<LetStmt, Stmt("Local", TRUE, "Struct", ab),
                   Stmt("Expr", FALSE, "Path", <<>>)>>],
      [name |-> "new", stmts |-> <<LetStmt, Stmt("Expr", TRUE, "Return", ab)>>],
      [name |-> "new", stmts |-> <<LetStmt, Stmt("Expr", FALSE, "If", ab)>>],
      [name |-> "new", stmts |-> <<Stmt("Expr", FALSE, "Block", ab)>>],
      NewFn({}, {}),
      NewFn({"id", "created_dtm"}, {}),
      HelloFn }

InitInject ==
    /\ args \in AttrLists
    /\ item_struct = <<>>
    /\ struct_authored = <<>>
    /\ struct_status = "none"
    /\ augment_count = 0
    /\ fn_item \in FnShapes
    /\ fn_authored = fn_item
    /\ fn_status = "authored"
    /\ NoEntity

NextInject == ScaffoldingFn

SpecInject == InitInject /\ [][NextInject]_vars

-----------------------------------------------------------------------------

(* Observations on the expanded items *)

FnExpanded == fn_status = "expanded" /\ fn_authored.name = "new"

\* the string literals among the attribute arguments that name a capability
Requested == {c \in Range(Capabilities) : \E i \in 1..Len(args) : args[i] = LitStr(c)}

CatalogFields == Range(CoreFields) \cup Requested

Members(fields) == {fields[i].member : i \in 1..Len(fields)}

MemberCount(fields, f) == Cardinality({i \in 1..Len(fields) : fields[i].member = f})

Names(fields) == [i \in 1..Len(fields) |-> fields[i].name]

\* the last n elements of a sequence
Suffix(s, n) == SubSeq(s, Len(s) - n + 1, Len(s))

-----------------------------------------------------------------------------
(* C1: explicit wins. For every core field the authored literal of `new`    *)
(* sets, the expanded literal holds no default initializer of it and holds  *)
(* the authored initializer unchanged; for every core field the literal     *)
(* does not set, it holds exactly the default initializer.                  *)
C1_ExplicitWins ==
    FnExpanded =>
        LET before == TailFields(fn_authored)
            after == TailFields(fn_item)
        IN  /\ Suffix(after, Len(before)) = before
            /\ \A f \in Range(CoreFields) :
                 IF f \in Members(before)
                 THEN /\ Count(after, DefaultLine(f)) = 0
                      /\ MemberCount(after, f) = 1
                      /\ Count(after, FieldValue(f, UserExpr(f))) = 1
                 ELSE /\ Count(after, DefaultLine(f)) = 1
                      /\ MemberCount(after, f) = 1

\* a literal that sets id and created_dtm itself and leaves the rest
C1_Witness ==
    /\ FnExpanded
    /\ Members(TailFields(fn_authored)) \cap Range(CoreFields) = {"id", "created_dtm"}
    /\ Count(TailFields(fn_item), FieldValue("id", UserExpr("id"))) = 1
    /\ Count(TailFields(fn_item), DefaultLine("modified_dtm")) = 1

(* C2: for the same capability list the fields the type augmenter adds and  *)
(* the fields the injector initializes, when the literal sets none, are the *)
(* same set: the core fields and one field per requested capability.        *)
C2_AugmenterInjectorAgree ==
    (/\ struct_status = "expanded" /\ augment_count = 1
     /\ fn_status = "expanded") =>
        LET declared == Range(Names(SubSeq(item_struct, Len(struct_authored) + 1,
                                           Len(item_struct))))
            set == Members(TailFields(fn_item)) \ Members(TailFields(fn_authored))
        IN  /\ declared = CatalogFields
            /\ set = CatalogFields

C2_Witness ==
    /\ struct_status = "expanded" /\ augment_count = 1 /\ fn_status = "expanded"
    /\ Requested = {EMAIL, NOTES, TAGS}
    /\ Members(TailFields(fn_item)) = Range(CoreFields) \cup {EMAIL, NOTES, TAGS, "a", "b"}

(* C3: in the expanded literal every catalog field, core or requested       *)
(* capability, is initialized exactly once.                                 *)
C3_EveryCatalogFieldOnce ==
    FnExpanded =>
        \A f \in CatalogFields : MemberCount(TailFields(fn_item), f) = 1

(* C4: the field list of an augmented struct never holds a name twice.      *)
C4_NoDuplicateFieldNames ==
    struct_status = "expanded" => NoDuplicates(Names(item_struct))

(* C5: a capability list with a name outside the catalog makes the          *)
(* expansion fail with an error.                                            *)
C5_UnknownCapabilityFails ==
    (\E i \in 1..Len(args) :
        args[i].kind = "LitStr" /\ args[i].value \notin Range(Capabilities)) =>
        /\ struct_status \in {"none", "authored", "compile_error"}
        /\ fn_status \in {"none", "authored", "compile_error"}

(* C6: a constructor that sets no catalog field itself, run while the clock *)
(* reads now, yields created_dtm = modified_dtm = now, inactive_dtm =       *)
(* add_days(now, 90), expired_dtm = add_years(now, 3), an empty activity    *)
(* log and an empty collection for every requested capability.              *)
C6_DefaultsAtConstruction ==
    \A now \in ctor_reads :
        (/\ Returned
         /\ ctor_reads = {now}
         /\ Members(TailFields(fn_authored)) \cap CatalogFields = {}) =>
            /\ entity["created_dtm"] = now
            /\ entity["modified_dtm"] = now
            /\ entity["inactive_dtm"] = now + 90 * 86400
            /\ entity["expired_dtm"] = add_years(now, 3)
            /\ entity["id"] \in Uuids
            /\ entity["activity"] = <<>>
            /\ \A c \in Requested \ {TAGS} : entity[c] = EmptyMap
            /\ TAGS \in Requested => entity[TAGS] = <<>>
            /\ DOMAIN entity = CatalogFields \cup {"a", "b"}

\* built on 2024-02-29 12:00:00 with notes and tags: inactive on 2024-05-29,
\* expired on 2027-02-28
C6_Witness ==
    /\ Returned
    /\ ctor_reads = {1709208000}
    /\ Members(TailFields(fn_authored)) \cap CatalogFields = {}
    /\ Requested = {NOTES, TAGS}
    /\ entity["created_dtm"] = 1709208000
    /\ entity["inactive_dtm"] = 1716984000
    /\ entity["expired_dtm"] = 1803816000
    /\ entity[TAGS] = <<>>

(* C7: the tags sequence holds no value twice.                              *)
C7_NoDuplicateTags ==
    tags_status = "ok" => NoDuplicates(tags)

(* C8: has_tag(t) returns true exactly when t is an element of tags.        *)
C8_HasTagIffMember ==
    last_call.op = "has_tag" =>
        (last_call.result <=> last_call.tag \in Range(last_call.before))

(* C9: remove_tag(t) with t not in tags aborts the call; it is never a      *)
(* silent no-op.                                                            *)
C9_RemoveMissingPanics ==
    (last_call.op = "remove_tag" /\ last_call.tag \notin Range(last_call.before)) =>
        tags_status = "panicked"

\* remove_tag of a tag that is not among the two of the list
C9_Witness ==
    /\ last_call.op = "remove_tag"
    /\ last_call.before = <<"tag_1", "tag_3">>
    /\ last_call.tag = "tag_2"
    /\ tags_status = "panicked"

(* C10: remove_tag(t) with t in tags makes the sequence one shorter, makes  *)
(* has_tag(t) false, and keeps every other tag in its relative order.       *)
C10_RemovePresent ==
    (last_call.op = "remove_tag" /\ last_call.tag \in Range(last_call.before)) =>
        /\ tags_status = "ok"
        /\ Len(tags) = Len(last_call.before) - 1
        /\ ~has_tag(tags, last_call.tag)
        /\ SelectSeq(tags, LAMBDA t : t # last_call.tag)
             = SelectSeq(last_call.before, LAMBDA t : t # last_call.tag)

\* the first of three tags is removed
C10_Witness ==
    /\ last_call.op = "remove_tag"
    /\ last_call.before = <<"tag_1", "tag_2", "tag_3">>
    /\ last_call.tag = "tag_1"
    /\ tags = <<"tag_2", "tag_3">>


(* C19: an entity returned by the expanded constructor has                  *)
(* modified_dtm >= created_dtm, whichever lifecycle fields the literal sets *)
(* itself, under a clock that may advance between two initializers.         *)
C19_EntityModifiedNotBeforeCreated ==
    Returned => entity["modified_dtm"] >= entity["created_dtm"]

\* the collection an id-addressed method works on
OpColl(op) ==
    CASE op \in {"insert_address", "get_address", "modify_address",
                 "remove_address", "search_addresses_by_category"} -> ADDRESS
      [] op \in {"insert_email_address", "get_email_address",
                 "remove_email_address", "search_email_addresses_by_category"} -> EMAIL
      [] op \in {"insert_note", "get_note", "modify_note", "remove_note",
                 "search_notes"} -> NOTES
      [] op \in {"insert_phone_number", "get_phone_number",
                 "remove_phone_number", "search_phone_numbers_by_category"} -> PHONE

RemoveOps == {"remove_address", "remove_email_address", "remove_note",
              "remove_phone_number"}

ModifyOps == {"modify_address", "modify_note"}

InIdOrder(map, K) ==
    LET hits == SelectSeq(SubIds, LAMBDA k : k \in DOMAIN map /\ k \in K)
    IN  [i \in 1..Len(hits) |-> map[hits[i]]]

ValidUtf8(note) == Utf8ValidFrom(note.content, 1)

\* the text of a note, invalid sequences replaced by U+FFFD
LossyText(note) == from_utf8_lossy(note.content)

(* C12: search_notes(s) on notes of which one at least is not valid UTF-8   *)
(* does not fail and returns the notes whose lossy-decoded content          *)
(* contains s.                                                              *)
C12_SearchNotesLossy ==
    [][ (/\ ent_call'.op = "search_notes"
         /\ \E k \in DOMAIN entity[NOTES] : ~ValidUtf8(entity[NOTES][k]))
        => (/\ ent_status' = "ok"
            /\ ent_call'.result =
                 InIdOrder(entity[NOTES],
                           {k \in DOMAIN entity[NOTES] :
                               StrContains(LossyText(entity[NOTES][k]), ent_call'.params)})) ]_vars

(* C13: with every note valid UTF-8, search_notes(s) returns the notes      *)
(* whose content contains s as a substring, each once, in ascending id      *)
(* order, and leaves the notes as they were.                                *)
C13_SearchNotesSubstring ==
    [][ (/\ ent_call'.op = "search_notes"
         /\ \A k \in DOMAIN entity[NOTES] : ValidUtf8(entity[NOTES][k]))
        => (/\ ent_status' = "ok"
            /\ ent_call'.result =
                 InIdOrder(entity[NOTES],
                           {k \in DOMAIN entity[NOTES] :
                               StrContains(LossyText(entity[NOTES][k]), ent_call'.params)})
            /\ entity' = entity) ]_vars

\* "a" is found inside "ab" and inside "\u{e9}a": two notes, smaller id first
C13_Witness ==
    /\ ent_call.op = "search_notes"
    /\ ent_status = "ok"
    /\ ent_call.params = <<97>>
    /\ Len(ent_call.result) = 2
    /\ ent_call.result[1].id = SubIds[1]
    /\ ent_call.result[1].content # ent_call.result[2].content

SearchCategoryOps == {"search_addresses_by_category",
                      "search_email_addresses_by_category",
                      "search_phone_numbers_by_category"}

(* C14: search_*_by_category(c) on addresses, email addresses and phone     *)
(* numbers returns the entries whose category equals c, each once, as       *)
(* copies in ascending id order whatever the insertion order, and leaves    *)
(* the collection as it was.                                                *)
C14_SearchByCategory ==
    [][ ent_call'.op \in SearchCategoryOps
        => (/\ ent_status' = "ok"
            /\ ent_call'.result =
                 InIdOrder(entity[OpColl(ent_call'.op)],
                           {k \in DOMAIN entity[OpColl(ent_call'.op)] :
                               entity[OpColl(ent_call'.op)][k].category = ent_call'.params})
            /\ entity' = entity) ]_vars

\* two addresses of the category, the one with the smaller id inserted later
C14_Witness ==
    /\ ent_call.op = "search_addresses_by_category"
    /\ Len(ent_call.result) = 2
    /\ ent_call.result[1].id = SubIds[1]
    /\ ent_call.result[1].created_dtm > ent_call.result[2].created_dtm

GetOps == {"get_address", "get_email_address", "get_note", "get_phone_number"}

\* the entry holds what an insert was given
Carries(coll, e, a) ==
    CASE coll = ADDRESS ->
            /\ e.category = a.category /\ e.line_1 = a.line_1
            /\ e.line_2 = a.line_2 /\ e.line_3 = a.line_3
            /\ e.line_4 = a.line_4 /\ e.country_code = a.country_code
      [] coll = EMAIL -> e.category = a.category /\ e.address = a.address
      [] coll = PHONE ->
            /\ e.category = a.category /\ e.number = a.number
            /\ e.country_code = a.country_code
      [] coll = NOTES ->
            /\ e.author = a.author /\ e.content = a.content
            /\ a.access.some => e.access = a.access.value

(* C15: after inserts and removes on an id-keyed collection, no id having   *)
(* been handed out while it was a key: get_*(id) returns the entry with the *)
(* values given at insert for the ids an insert returned and no remove      *)
(* took since, nothing for any other id, and the collection holds as many   *)
(* entries as there are such ids.                                           *)
C15_GetAfterInsertRemove ==
    [][ (ent_call'.op \in GetOps /\ live.fresh)
        => LET coll == OpColl(ent_call'.op)
               id == ent_call'.id
               r == ent_call'.result
           IN  /\ ent_status' = "ok"
               /\ Cardinality(DOMAIN entity[coll]) = Cardinality(DOMAIN live.held[coll])
               /\ IF id \in DOMAIN live.held[coll]
                  THEN /\ r.some
                       /\ r.value.id = id
                       /\ Carries(coll, r.value, live.held[coll][id].args)
                  ELSE ~r.some ]_vars

\* the one note held is found again, with the access its insert was given
C15_Witness ==
    /\ ent_call.op = "get_note"
    /\ live.fresh
    /\ ent_call.result.some
    /\ ent_call.result.value.access = "private"
    /\ Cardinality(DOMAIN entity[NOTES]) = 1

\* the entry holds the payload a modify was given; access is left to C17
Replaced(coll, e, a) ==
    IF coll = ADDRESS
    THEN /\ e.category = a.category /\ e.line_1 = a.line_1
         /\ e.line_2 = a.line_2 /\ e.line_3 = a.line_3
         /\ e.line_4 = a.line_4 /\ e.country_code = a.country_code
    ELSE e.author = a.author /\ e.content = a.content

(* C16: modify_address and modify_note on an id of the collection replace   *)
(* the payload of that entry with the values supplied, stamp modified_dtm   *)
(* with the current clock, keep id, created_dtm and the key, and leave all  *)
(* other entries as they were.                                              *)
C16_ModifyPresent ==
    [][ (/\ ent_call'.op \in ModifyOps
         /\ ent_call'.id \in DOMAIN entity[OpColl(ent_call'.op)])
        => LET coll == OpColl(ent_call'.op)
               id == ent_call'.id
           IN  /\ ent_status' = "ok"
               /\ DOMAIN entity'[coll] = DOMAIN entity[coll]
               /\ \A k \in (DOMAIN entity[coll]) \ {id} :
                      entity'[coll][k] = entity[coll][k]
               /\ \A m \in (DOMAIN entity) \ {coll} : entity'[m] = entity[m]
               /\ Replaced(coll, entity'[coll][id], ent_call'.params)
               /\ entity'[coll][id].modified_dtm = clock
               /\ entity'[coll][id].id = id
               /\ entity[coll][id].id = id
               /\ entity'[coll][id].created_dtm = entity[coll][id].created_dtm ]_vars

\* an address changed a second after it was created, next to another one
C16_Witness ==
    /\ ent_call.op = "modify_address"
    /\ ent_call.id \in DOMAIN entity[ADDRESS]
    /\ Cardinality(DOMAIN entity[ADDRESS]) = 2
    /\ entity[ADDRESS][ent_call.id].modified_dtm
         > entity[ADDRESS][ent_call.id].created_dtm
    /\ entity[ADDRESS][ent_call.id].country_code = ent_call.params.country_code

(* C17: modify_note without an access keeps the access the note had, with   *)
(* an access sets it; author and content are replaced either way.           *)
C17_ModifyNoteAccess ==
    [][ (ent_call'.op = "modify_note" /\ ent_call'.id \in DOMAIN entity[NOTES])
        => LET before == entity[NOTES][ent_call'.id]
               after == entity'[NOTES][ent_call'.id]
               a == ent_call'.params
           IN  /\ after.access = IF a.access.some THEN a.access.value
                                 ELSE before.access
               /\ after.author = a.author
               /\ after.content = a.content ]_vars

\* a private note rewritten by a call that names no access: still private
C17_Witness ==
    /\ ent_call.op = "modify_note"
    /\ ent_call.id \in DOMAIN entity[NOTES]
    /\ ~ent_call.params.access.some
    /\ entity[NOTES][ent_call.id].access = "private"
    /\ entity[NOTES][ent_call.id].author = "fsmith"

(* C18: every address, email address, phone number and note made by an      *)
(* insert and changed by modify only has modified_dtm >= created_dtm, and   *)
(* its created_dtm is the one stamped at insertion.                         *)
C18_SubEntityDtms ==
    \A coll \in IdKeyed \cap DOMAIN entity :
        \A k \in DOMAIN entity[coll] :
            /\ entity[coll][k].modified_dtm >= entity[coll][k].created_dtm
            /\ k \in DOMAIN live.held[coll]
            /\ entity[coll][k].created_dtm = live.held[coll][k].created_dtm

\* a note whose two timestamps differ: the clock moved inside insert_note
C18_Witness ==
    /\ ent_call.op = "insert_note"
    /\ ent_call.result \in DOMAIN entity[NOTES]
    /\ entity[NOTES][ent_call.result].modified_dtm
         > entity[NOTES][ent_call.result].created_dtm

IsPrefix(s, t) == Len(s) <= Len(t) /\ SubSeq(t, 1, Len(s)) = s

(* C20: log_activity(action, description) adds one item at the end of the   *)
(* log, with that action and description and the current clock as          *)
(* created_dtm; across every step the earlier log is a prefix of the later. *)
C20_ActivityAppendOnly ==
    [][ /\ IsPrefix(entity["activity"], entity'["activity"])
        /\ ent_call'.op = "log_activity"
           => /\ Len(entity'["activity"]) = Len(entity["activity"]) + 1
              /\ LET item == entity'["activity"][Len(entity'["activity"])] IN
                   /\ item.action = ent_call'.params.name
                   /\ item.description = ent_call'.params.descr
                   /\ item.created_dtm = clock
        /\ ent_call'.op # "log_activity"
           => entity'["activity"] = entity["activity"] ]_vars

\* a second item logged a second after the first, under another action
C20_Witness ==
    /\ ent_call.op = "log_activity"
    /\ Len(entity["activity"]) = 2
    /\ entity["activity"][2].created_dtm > entity["activity"][1].created_dtm
    /\ entity["activity"][2].action # entity["activity"][1].action
    /\ entity["activity"][2].action = ent_call.params.name

(* C21: get_activity(a) returns the items of the log whose action is a, as  *)
(* often as they occur and in log order, nothing when no item has that      *)
(* action, and leaves the log as it was.                                    *)
C21_GetActivityFilters ==
    [][ ent_call'.op = "get_activity"
        => LET log == entity["activity"]
               idx == SelectSeq([i \in 1..Len(log) |-> i],
                                LAMBDA i : log[i].action = ent_call'.params)
           IN  /\ ent_status' = "ok"
               /\ ent_call'.result = [j \in 1..Len(idx) |-> log[idx[j]]]
               /\ entity' = entity ]_vars

\* two items of the action asked for, logged a second apart, both returned
C21_Witness ==
    /\ ent_call.op = "get_activity"
    /\ ent_call.params = "updated"
    /\ Len(entity["activity"]) = 2
    /\ Len(ent_call.result) = 2
    /\ ent_call.result[1].created_dtm < ent_call.result[2].created_dtm

\* the keys of the members of a JSON object
Keys(json) == {json.val[i].key : i \in 1..Len(json.val)}

\* the text is no JSON, or lacks a field of the type, or gives created_dtm a
\* string
Mismatch(ty, text) ==
    \/ text.json.kind = "bad"
    \/ /\ text.json.kind = "obj"
       /\ \/ \E i \in 1..Len(StructFields(ty)) : StructFields(ty)[i].name \notin Keys(text.json)
          \/ \E i \in 1..Len(text.json.val) :
                /\ text.json.val[i].key = "created_dtm"
                /\ text.json.val[i].val.kind # "num"

(* C24: deserialized, of the entity and of ActivityItem, Address,           *)
(* EmailAddress, Note and PhoneNumber, never aborts, and on a text that is  *)
(* no JSON or does not match the type (a missing lifecycle field, a missing *)
(* capability collection, a value of another type) it returns               *)
(* DeserializeError.                                                        *)
C24_DeserializeError ==
    [][ ent_call'.op = "deserialized"
        => /\ ent_status' = "ok"
           /\ Mismatch(ent_call'.id, ent_call'.params)
                => /\ ~ent_call'.result.ok
                   /\ ent_call'.result.value = DeserializeError ]_vars

C24_Witness ==
    /\ ent_status = "ok"
    /\ ent_call.op = "deserialized"
    /\ ent_call.id = MyEntity
    /\ ent_call.params.json.kind = "obj"
    /\ \E c \in IdKeyed :
          /\ \E i \in 1..Len(item_struct) : item_struct[i].name = c
          /\ c \notin Keys(ent_call.params.json)
    /\ ~ent_call.result.ok
    /\ ent_call.result.value = DeserializeError

(* C23: deserialized on the text serialize returns for an entity succeeds   *)
(* and gives an entity with the same lifecycle fields, the same activity    *)
(* log, the same capability collections and the same base fields.           *)
C23_SerializeThenDeserialize ==
    [][ /\ ent_call.op = "serialize"
        /\ ent_call'.op = "deserialized"
        /\ ent_call'.id = MyEntity
        /\ ent_call'.params = ent_call.result
        => /\ ent_status' = "ok"
           /\ ent_call'.result.ok
           /\ DOMAIN ent_call'.result.value = DOMAIN entity
           /\ \A f \in DOMAIN entity : ent_call'.result.value[f] = entity[f] ]_vars

C23_Witness ==
    /\ ent_call.op = "deserialized"
    /\ ent_call.id = MyEntity
    /\ ent_call.result.ok
    /\ ent_call.params = serialize(MyEntity, entity)
    /\ Len(entity["activity"]) = 1
    /\ "notes" \in DOMAIN entity
    /\ \E k \in DOMAIN entity["notes"] : entity["notes"][k].content = <<255, 97, 98>>

\* the text is in the form serialize writes: no white space, a struct as an
\* object of exactly its fields in declaration order, a BTreeMap as an object
\* of its keys in ascending order
RECURSIVE InWrittenForm(_, _)
InWrittenForm(ty, j) ==
    CASE TypeKind(ty) = "struct" ->
            /\ j.kind = "obj"
            /\ Len(j.val) = Len(StructFields(ty))
            /\ \A i \in 1..Len(j.val) :
                  /\ j.val[i].key = StructFields(ty)[i].name
                  /\ InWrittenForm(StructFields(ty)[i].ty, j.val[i].val)
      [] TypeKind(ty) = "vec" ->
            /\ j.kind = "arr"
            /\ \A i \in 1..Len(j.val) : InWrittenForm(ItemType(ty), j.val[i])
      [] TypeKind(ty) = "map" ->
            /\ j.kind = "obj"
            /\ [i \in 1..Len(j.val) |-> j.val[i].key]
                 = SelectSeq(SubIds, LAMBDA k : k \in Keys(j))
            /\ \A i \in 1..Len(j.val) : InWrittenForm(ItemType(ty), j.val[i].val)
      [] OTHER -> j.kind \in {"str", "num", "bool"}

(* C22 as stated: serialize(deserialized(x)) = x for every text x that      *)
(* deserialized accepts.                                                    *)
C22_RoundTripEveryText ==
    [][ /\ ent_call.op = "deserialized"
        /\ ent_call.id = MyEntity
        /\ ent_call.result.ok
        /\ ent_call'.op = "serialize"
        => ent_call'.result = ent_call.params ]_vars

(* C22, amended: serialize(deserialized(x)) = x for every text x that      *)
(* deserialized accepts and that is in the form serialize writes: no white space between the tokens, the keys   *)
(* exactly the fields of the type in declaration order, the keys of a map   *)
(* in ascending order.                                                      *)
C22_RoundTripWrittenForm ==
    [][ /\ ent_call.op = "deserialized"
        /\ ent_call.id = MyEntity
        /\ ent_call.result.ok
        /\ ~ent_call.params.ws
        /\ InWrittenForm(MyEntity, ent_call.params.json)
        /\ ent_call'.op = "serialize"
        => ent_call'.result = ent_call.params ]_vars

C22_Witness ==
    /\ ent_call.op = "deserialized"
    /\ ent_call.id = MyEntity
    /\ ~ent_call.params.ws
    /\ InWrittenForm(MyEntity, ent_call.params.json)
    /\ ent_call.result.ok
    /\ Len(entity["activity"]) = 2
    /\ serialize(MyEntity, ent_call.result.value) = ent_call.params

\* the keys of the members of a JSON object, in the order written
KeySeq(json) == [i \in 1..Len(json.val) |-> json.val[i].key]

\* the capabilities requested, in the order of the catalog
RequestedSeq == SelectSeq(Capabilities, LAMBDA c : c \in Requested)

(* C25 as stated: scaffolding_struct gives the struct the lifecycle fields  *)
(* first, the requested capability fields next and the fields it was        *)
(* written with after them, and serialize writes the keys in that order.    *)
C25_LifecycleFieldsFirst ==
    [][ /\ struct_status' = "expanded" /\ augment_count' = augment_count + 1
           => Names(item_struct')
                = <<"id", "created_dtm", "modified_dtm", "inactive_dtm",
                    "expired_dtm", "activity">>
                  \o RequestedSeq \o Names(item_struct)
        /\ ent_call'.op = "serialize"
           => KeySeq(ent_call'.result.json) = Names(item_struct) ]_vars

(* C25, amended: scaffolding_struct leaves the fields the struct was        *)
(* written with first, in their order, adds the lifecycle fields id,        *)
(* created_dtm, modified_dtm, inactive_dtm, expired_dtm and activity after  *)
(* them and the requested capability fields last, in the order of the       *)
(* catalog; serialize writes the keys in this declaration order.            *)
C25_BaseFieldsFirst ==
    [][ /\ struct_status' = "expanded" /\ augment_count' = augment_count + 1
           => Names(item_struct')
                = Names(item_struct)
                  \o <<"id", "created_dtm", "modified_dtm", "inactive_dtm",
                       "expired_dtm", "activity">>
                  \o RequestedSeq
        /\ ent_call'.op = "serialize"
           => KeySeq(ent_call'.result.json) = Names(item_struct) ]_vars

C25_Witness ==
    /\ ent_call.op = "serialize"
    /\ KeySeq(ent_call.result.json)
         = <<"a", "b", "id", "created_dtm", "modified_dtm", "inactive_dtm",
             "expired_dtm", "activity", "addresses", "notes">>
    /\ args = <<LitStr(NOTES), LitStr(ADDRESS)>>

\* the date of a timestamp, its month counted from year 0, and its time of day
DateOf(dtm) == CivilFromDays(dtm \div SecondsPerDay)
MonthIndex(dtm) == DateOf(dtm)[1] * 12 + DateOf(dtm)[2] - 1
TimeOfDay(dtm) == dtm % SecondsPerDay

\* dtm moved by n months: the time of day kept, the day kept or, when the
\* target month is shorter, its last day
MovedByMonths(dtm, n, result) ==
    /\ TimeOfDay(result) = TimeOfDay(dtm)
    /\ MonthIndex(result) = MonthIndex(dtm) + n
    /\ \/ DateOf(result)[3] = DateOf(dtm)[3]
       \/ /\ DateOf(result)[3] < DateOf(dtm)[3]
          /\ MonthIndex(result + SecondsPerDay) = MonthIndex(result) + 1

(* C26: add_months and add_years keep the time of day and clamp the day to  *)
(* the last day of the target month (2023-01-29 plus one month is           *)
(* 2023-02-28, 2024-02-29 plus one year is 2025-02-28), and add_years(ts,   *)
(* y) is add_months(ts, 12 * y).                                            *)
C26_MonthsAndYears ==
    /\ ent_call.op = "add_months"
         => /\ MovedByMonths(ent_call.params[1], ent_call.params[2], ent_call.result)
            /\ ent_call.params = <<1674993600, 1>> => ent_call.result = 1677585600
    /\ ent_call.op = "add_years"
         => /\ MovedByMonths(ent_call.params[1], 12 * ent_call.params[2], ent_call.result)
            /\ ent_call.result = add_months(ent_call.params[1], 12 * ent_call.params[2])
            /\ ent_call.params = <<1709208000, 1>> => ent_call.result = 1740744000

C26_Witness ==
    /\ ent_call.op = "add_years"
    /\ ent_call.params = <<1709208000, 1>>
    /\ DateOf(ent_call.params[1]) = <<2024, 2, 29>>
    /\ DateOf(ent_call.result) = <<2025, 2, 28>>
    /\ TimeOfDay(ent_call.result) = 12 * 3600

\* the positions of the list whose record has the code in the field the
\* lookup is about
Matching(op, code) ==
    {i \in 1..Len(countries) :
        CASE op = "get_country_by_iso_2_code" -> countries[i].iso_2_code = code
          [] op = "get_country_by_iso_3_code" -> countries[i].iso_3_code = code
          [] op = "get_country_by_phone_code" -> countries[i].phone_code = code}

(* C27: get_country_by_iso_2_code, get_country_by_iso_3_code and            *)
(* get_country_by_phone_code return the last record of the list, in list    *)
(* order, with the code looked up, and nothing when no record has it;       *)
(* is_valid(c) is true exactly when a record of the list equals c in all    *)
(* four fields; none of them changes the list.                              *)
C27_CountriesLookups ==
    [][ /\ ent_call'.op \in {"get_country_by_iso_2_code", "get_country_by_iso_3_code",
                             "get_country_by_phone_code"}
           => LET at == Matching(ent_call'.op, ent_call'.params) IN
              /\ countries' = countries
              /\ at = {} => ~ent_call'.result.some
              /\ at # {} => /\ ent_call'.result.some
                            /\ \E i \in at : /\ \A j \in at : j <= i
                                             /\ ent_call'.result.value = countries[i]
        /\ ent_call'.op = "is_valid"
           => /\ countries' = countries
              /\ ent_call'.result
                   = (\E i \in 1..Len(countries) :
                         /\ countries[i].name = ent_call'.params.name
                         /\ countries[i].phone_code = ent_call'.params.phone_code
                         /\ countries[i].iso_2_code = ent_call'.params.iso_2_code
                         /\ countries[i].iso_3_code = ent_call'.params.iso_3_code) ]_vars

C27_Witness ==
    /\ ent_call.op = "get_country_by_phone_code"
    /\ ent_call.params = "1"
    /\ Len(countries) = 3
    /\ countries[1].name = "United States"
    /\ countries[2].name = "Canada"
    /\ countries[3].name = "Afghanistan"
    /\ ent_call.result.some
    /\ ent_call.result.value.name = "Canada"

(* C28: in every state reached from empty collections by insert, modify and *)
(* remove calls, every entry of addresses, email_addresses, notes and       *)
(* phone_numbers is kept under the key that is the entry's own id.          *)
C28_KeyIsOwnId ==
    ent_status = "ok"
        => \A coll \in IdKeyed \cap DOMAIN entity :
              \A k \in DOMAIN entity[coll] : entity[coll][k].id = k

C28_Witness ==
    /\ ent_status = "ok"
    /\ ent_call.op = "modify_address"
    /\ ent_call.id \in DOMAIN entity[ADDRESS]
    /\ Cardinality(DOMAIN entity[ADDRESS]) = 2
    /\ \A k \in DOMAIN entity[ADDRESS] : entity[ADDRESS][k].id = k
    /\ \E k \in DOMAIN entity[ADDRESS] :
          entity[ADDRESS][k].modified_dtm > entity[ADDRESS][k].created_dtm

\* the field of the entity an operation works on
OwnField(op) ==
    CASE op \in {"log_activity", "get_activity"} -> "activity"
      [] op \in {"insert_address", "get_address", "modify_address", "remove_address",
                 "search_addresses_by_category", "insert_email_address",
                 "get_email_address", "remove_email_address",
                 "search_email_addresses_by_category", "insert_note", "get_note",
                 "modify_note", "remove_note", "search_notes", "insert_phone_number",
                 "get_phone_number", "remove_phone_number",
                 "search_phone_numbers_by_category"} -> OpColl(op)
      [] OTHER -> ""

(* C29: a capability operation or an activity operation changes at most its *)
(* own collection: insert, modify, remove and search on addresses, email    *)
(* addresses, notes and phone numbers, add_tag, remove_tag and has_tag,     *)
(* log_activity and get_activity leave id, created_dtm, modified_dtm,       *)
(* inactive_dtm, expired_dtm, the base fields and every other collection as *)
(* they were.                                                               *)
C29_OwnCollectionOnly ==
    [][ /\ DOMAIN entity' = DOMAIN entity
        /\ \A f \in DOMAIN entity :
              entity'[f] # entity[f] => /\ f = OwnField(ent_call'.op)
                                        /\ tags' = tags
        /\ tags' # tags
              => /\ last_call'.op \in {"add_tag", "remove_tag"}
                 /\ entity' = entity
        /\ last_call' # last_call => entity' = entity ]_vars

C29_Witness ==
    /\ ent_call.op = "insert_note"
    /\ Cardinality(DOMAIN entity[NOTES]) = 1
    /\ Cardinality(DOMAIN entity[ADDRESS]) = 1
    /\ tags = <<"tag_1">>
    /\ last_call.op = "has_tag"
    /\ entity["modified_dtm"] = ClockStart
    /\ clock > ClockStart

\* the statement is a struct literal written as the expression a block ends
\* in
TailLiteral(stmt) == stmt.kind = "Expr" /\ ~stmt.semi /\ stmt.expr = "Struct"

(* C30: scaffolding_fn changes a function only when it is named new, and    *)
(* then only a struct literal that is the tail expression of the top-level  *)
(* block: a function of another name, and every statement of a new that is  *)
(* not that literal (a let binding, a return statement, a branch or a       *)
(* nested block holding the literal), comes out as written.                 *)
C30_OnlyTailLiteralOfNew ==
    [][ fn_status = "authored" /\ fn_status' = "expanded"
        => /\ fn_item'.name = fn_item.name
           /\ Len(fn_item'.stmts) = Len(fn_item.stmts)
           /\ fn_item.name # "new" => fn_item' = fn_item
           /\ \A s \in 1..Len(fn_item.stmts) :
                 \/ fn_item'.stmts[s] = fn_item.stmts[s]
                 \/ /\ fn_item.name = "new"
                    /\ s = Len(fn_item.stmts)
                    /\ TailLiteral(fn_item.stmts[s])
                    /\ fn_item'.stmts[s].kind = "Expr"
                    /\ ~fn_item'.stmts[s].semi
                    /\ fn_item'.stmts[s].expr = "Struct" ]_vars

C30_Witness ==
    /\ fn_status = "expanded"
    /\ fn_authored.name = "new"
    /\ Len(fn_authored.stmts) = 3
    /\ fn_authored.stmts[2].kind = "Local"
    /\ fn_authored.stmts[2].expr = "Struct"
    /\ fn_item = fn_authored
    /\ Requested # {}

====
